---------------------------- MODULE Spec2Model ----------------------------
(***************************************************************************)
(* Checkpoint hook of pi-hooks (checkpoint/checkpoint.ts): the git-backed  *)
(* capture / restore engine and the hook's event handlers; and the         *)
(* LSPManager of the LSP hook (lsp/lsp-hook.ts).                           *)
(*                                                                         *)
(* The repository is modelled by its HEAD, its index and its working tree  *)
(* over a small set of paths; trees and commits are content addressed, so  *)
(* a tree "sha" is the function path -> blob itself.                       *)
(***************************************************************************)
EXTENDS Integers, Sequences, FiniteSets, TLC

(***************************************************************************)
(* Bounds of the model.                                                    *)
(***************************************************************************)
\* user edits of the repository explored per behaviour: of the engine alone,
\* and of the hook
MaxEdits == 3
MaxHookEdits == 1
\* wall-clock ticks explored; one tick is TickMs milliseconds
MaxClock == 2
\* milliseconds per clock tick (two ticks fall into one second)
TickMs == 500
\* commands that fail for a reason outside the program, per behaviour
MaxFaults == 1

(***************************************************************************)
(* Constants of the program.                                               *)
(***************************************************************************)
\* "0".repeat(40), the sha that stands for an unborn HEAD
ZEROS == [sha |-> "0000000000000000000000000000000000000000"]
REF_BASE == "refs/pi-checkpoints"
\* git stores a commit's committer date in whole seconds
MsPerSecond == 1000

(***************************************************************************)
(* Files.                                                                  *)
(***************************************************************************)
Paths == {"a.ts", "debug.log", "node_modules/x.js"}
Blobs == {"blobA", "blobB"}
Absent == "absent"
Trees == [Paths -> Blobs \cup {Absent}]
EmptyTree == [p \in Paths |-> Absent]
\* the repository's .gitignore holds the pattern *.log
GitIgnored(p) == p = "debug.log"
Entries(t) == {p \in Paths : t[p] # Absent}

\* a commit of the primary history, identified by its content
Commit(t) == [tree |-> t]
TreeOf(sha) == sha.tree

VARIABLES
  head,        \* commit HEAD points at, or ZEROS when HEAD is unborn
  index,       \* the repository's real index
  worktree,    \* the files on disk
  refs,        \* live refs under REF_BASE: id -> metadata commit
  tmpDirs,     \* temporary directories of captures that exist on disk
  clock,       \* Date.now(), in ticks
  caps,        \* createCheckpoint calls: slot -> position and locals
  rst,         \* the restoreCheckpoint call
  budget,      \* what the environment may still do in this behaviour
  eng,         \* driver of the engine alone: capture, then restore
  refWrites,   \* number of refs written so far (history)
  completedCheckpoints,   \* the hook's known set, in insertion order
  pendingCheckpoints,     \* the hook's promises: slots of the captures started
  gitAvailable,
  checkpointingFailed,
  currentSessionId,       \* 0 stands for ""
  currentSessionFile,     \* 0 stands for "", n for the file of session n
  prunes,      \* pruneCheckpoints calls: slot -> position and locals
  br,          \* the branch handler
  notified,    \* ctx.ui.notify calls of the latest branch handler
  mgr          \* the LSP hook's LSPManager, its clients and its calls

repoVars == <<head, index, worktree>>
hookVars == <<completedCheckpoints, pendingCheckpoints, gitAvailable,
              checkpointingFailed, currentSessionId, currentSessionFile,
              prunes, br, notified, mgr>>
vars == <<head, index, worktree, refs, tmpDirs, clock, caps, rst, budget, eng,
          refWrites, completedCheckpoints, pendingCheckpoints, gitAvailable,
          checkpointingFailed, currentSessionId, currentSessionFile,
          prunes, br, notified, mgr>>

Now == clock * TickMs

\* the environment's allowance: user edits, turn_start events, branch events,
\* captures after which Math.random() starts a prune
\* faults: the commands that may still fail for reasons outside the program
\* restarts: the session_start events the host may still send after the first
Budget(e, t, b, p) ==
  [edits |-> e, turns |-> t, branches |-> b, prunes |-> p, faults |-> MaxFaults,
   restarts |-> 0]
NoFaults(b) == [b EXCEPT !.faults = 0]
\* the outcomes of a command as far as the environment decides them
Outcomes == IF budget.faults > 0 THEN BOOLEAN ELSE {TRUE}
\* the budget after a command with outcome ok
Spent(ok) == IF ok THEN budget ELSE [budget EXCEPT !.faults = @ - 1]
None == [none |-> TRUE]

(***************************************************************************)
(* The git commands the engine runs, as functions of the repository.       *)
(***************************************************************************)
\* git add -A . into a fresh index (GIT_INDEX_FILE=tmp), then git write-tree:
\* every file on disk that .gitignore does not exclude
AddAll(wt) == [p \in Paths |-> IF GitIgnored(p) THEN Absent ELSE wt[p]]

\* git reset --hard <sha>: HEAD and index become the commit's tree; files of the
\* tree are written, files of the old index that the tree lacks are removed,
\* files in neither are left alone
ResetHardWorktree(idx, wt, t) ==
  [p \in Paths |-> IF t[p] # Absent THEN t[p]
                   ELSE IF idx[p] # Absent THEN Absent
                   ELSE wt[p]]

\* git checkout-index -a -f: every index entry is written to disk, nothing is
\* removed
CheckoutIndex(idx, wt) ==
  [p \in Paths |-> IF idx[p] # Absent THEN idx[p] ELSE wt[p]]

(***************************************************************************)
(* createCheckpoint: one step per git command; every command may fail.     *)
(* At "settle" the last command has returned: what is left is the finally  *)
(* block (rm of the temporary directory, if one was made) and the return   *)
(* or throw, which the caller's continuation follows at once.              *)
(***************************************************************************)
CheckpointData(t) ==
  [id |-> t.id, turnIndex |-> t.turnIndex, sessionId |-> t.sessionId,
   headSha |-> t.headSha, indexTreeSha |-> t.indexTreeSha,
   worktreeTreeSha |-> t.worktreeTreeSha, timestamp |-> t.timestamp]

\* the metadata commit: git commit-tree <worktree tree> with the message lines
\* and the committer date, which git keeps in seconds
MetadataCommit(t) ==
  [tree |-> t.worktreeTreeSha,
   checkpoint |-> t.id, sessionId |-> t.sessionId, turn |-> t.turnIndex,
   head |-> t.headSha, indexTree |-> t.indexTreeSha,
   worktreeTree |-> t.worktreeTreeSha, created |-> t.timestamp,
   committerdate |-> t.timestamp \div MsPerSecond]

NewCapture(id, turnIndex, sessionId) ==
  [pc |-> "root", id |-> id, turnIndex |-> turnIndex, sessionId |-> sessionId,
   timestamp |-> 0, headSha |-> ZEROS, indexTreeSha |-> EmptyTree,
   tmpIndex |-> EmptyTree, worktreeTreeSha |-> EmptyTree,
   ok |-> FALSE, failedAt |-> "", sawUnborn |-> FALSE, promise |-> "pending",
   rm |-> ""]

\* step 1: git rev-parse HEAD; any failure yields the sentinel
RevParseHeadMutantThrows(t, ok) ==
  IF ok /\ head # ZEROS
  THEN [t EXCEPT !.pc = "index", !.headSha = head, !.sawUnborn = FALSE]
  ELSE [t EXCEPT !.pc = "settle", !.failedAt = "head", !.sawUnborn = head = ZEROS]
RevParseHead(t, ok) ==
  [t EXCEPT !.pc = "index",
            !.headSha = IF ok /\ head # ZEROS THEN head ELSE ZEROS,
            !.sawUnborn = head = ZEROS]

\* a call that has returned or thrown: its locals are gone
Returned(t) ==
  [NewCapture(t.id, t.turnIndex, t.sessionId) EXCEPT
     !.pc = IF t.ok THEN "done" ELSE "failed", !.ok = t.ok]

\* the finally block: await rm(tmpDir, {recursive, force}).catch(() => {});
\* it runs when the try was entered, that is when mkdtemp had made the
\* directory, and an error of rm is dropped
RmOutcomes(k) == IF k \in tmpDirs THEN Outcomes ELSE {TRUE}
RmTmpDirMutantNoFinally(t, k, rmOk) ==
  IF rmOk /\ t.ok THEN tmpDirs \ {k} ELSE tmpDirs
RmTmpDir(t, k, rmOk) == IF rmOk THEN tmpDirs \ {k} ELSE tmpDirs

\* a call that has returned or thrown; rm is history: what became of the
\* finally block
Finished(t, k, rmOk) ==
  [Returned(t) EXCEPT !.rm = IF k \notin tmpDirs THEN "skipped"
                             ELSE IF rmOk THEN "removed" ELSE "failed"]

Fail(t, at, next) == [t EXCEPT !.pc = next, !.failedAt = at, !.ok = FALSE]

\* git write-tree holds .git/index.lock from its start to its end, and dies
\* at its start when the lock file exists; so do the commands that write the
\* index
IndexLocked == \E k \in DOMAIN caps : caps[k].pc = "writetree"

\* step 5: git update-ref refs/pi-checkpoints/<id> <commit>; the refs after it
UpdateRefMutantWritesOnFailure(t, ok) ==
  [i \in DOMAIN refs \cup {t.id} |->
     IF i = t.id THEN MetadataCommit(t) ELSE refs[i]]
UpdateRef(t, ok) ==
  IF ok
  THEN [i \in DOMAIN refs \cup {t.id} |->
          IF i = t.id THEN MetadataCommit(t) ELSE refs[i]]
  ELSE refs

\* the repository's index after git add -A . ran with GIT_INDEX_FILE naming
\* the index of the temporary directory
RealIndexAfterAddMutantNoTempIndex == AddAll(worktree)
RealIndexAfterAdd == index

CaptureStep(k) ==
  /\ k \in DOMAIN caps
  /\ \E ok \in Outcomes :
       /\ budget' = Spent(ok)
       /\ LET t == caps[k] IN
          \/ /\ t.pc = "root"                       \* getRepoRoot, Date.now()
             /\ caps' = [caps EXCEPT ![k] =
                   IF ok THEN [t EXCEPT !.pc = "head", !.timestamp = Now]
                   ELSE Fail(t, "root", "settle")]
             /\ UNCHANGED <<refs, tmpDirs>>
          \/ /\ t.pc = "head"
             /\ caps' = [caps EXCEPT ![k] = RevParseHead(t, ok)]
             /\ UNCHANGED <<refs, tmpDirs>>
          \/ /\ t.pc = "index"                      \* git write-tree starts
             /\ caps' = [caps EXCEPT ![k] =
                   IF IndexLocked THEN Fail(t, "index.lock", "settle")
                   ELSE IF ok THEN [t EXCEPT !.pc = "writetree"]
                   ELSE Fail(t, "index", "settle")]
             /\ UNCHANGED <<refs, tmpDirs>>
          \/ /\ t.pc = "writetree"                  \* git write-tree ends
             /\ ok
             /\ caps' = [caps EXCEPT ![k] =
                   [t EXCEPT !.pc = "mktemp", !.indexTreeSha = index]]
             /\ UNCHANGED <<refs, tmpDirs>>
          \/ /\ t.pc = "mktemp"                     \* mkdtemp, before the try
             /\ caps' = [caps EXCEPT ![k] =
                   IF ok THEN [t EXCEPT !.pc = "add"]
                   ELSE Fail(t, "mktemp", "settle")]
             /\ tmpDirs' = IF ok THEN tmpDirs \cup {k} ELSE tmpDirs
             /\ UNCHANGED refs
          \/ /\ t.pc = "add"
             \* git add -A . (temp index) reads the working tree; git write-tree
             \* (temp index) and git commit-tree read only what this call made
             /\ \E at \in (IF ok THEN {""} ELSE {"add", "wtree", "commit"}) :
                  caps' = [caps EXCEPT ![k] =
                    IF ok THEN [t EXCEPT !.pc = "ref",
                                         !.tmpIndex = AddAll(worktree),
                                         !.worktreeTreeSha = AddAll(worktree)]
                    ELSE Fail(t, at, "settle")]
             /\ UNCHANGED <<refs, tmpDirs>>
          \/ /\ t.pc = "ref"                        \* git update-ref
             /\ caps' = [caps EXCEPT ![k] =
                   IF ok THEN [t EXCEPT !.pc = "settle", !.ok = TRUE]
                   ELSE Fail(t, "ref", "settle")]
             /\ refs' = UpdateRef(t, ok)
             /\ UNCHANGED tmpDirs
  /\ refWrites' = IF caps[k].pc = "ref" /\ caps'[k].ok
                  THEN refWrites + 1 ELSE refWrites
  /\ index' = IF caps[k].pc = "add" THEN RealIndexAfterAdd ELSE index
  /\ UNCHANGED <<head, worktree>>


(***************************************************************************)
(* restoreCheckpoint: the guard, then four git commands in a fixed order.  *)
(***************************************************************************)
IdleRestore == [pc |-> "idle", rec |-> None, failedAt |-> "", pre |-> None]

\* the call: getRepoRoot is the first command; pre remembers the repository
\* as the call found it
StartRestore(rec) ==
  [pc |-> "root", rec |-> rec, failedAt |-> "",
   pre |-> [head |-> head, index |-> index, worktree |-> worktree]]

\* the check that follows getRepoRoot: a record saved with no commits is refused
UnbornGuardMutantMissing(r) == [r EXCEPT !.pc = "reset"]
UnbornGuard(r) ==
  IF r.rec.headSha = ZEROS
  THEN [r EXCEPT !.pc = "failed", !.failedAt = "guard"]
  ELSE [r EXCEPT !.pc = "reset"]

\* a command of restoreCheckpoint rejects: the await throws out of the
\* function, past the commands that follow
ThrownMutantGoesOn(r, at) ==
  [r EXCEPT !.failedAt = at,
            !.pc = IF at = "reset" THEN "readwt"
                   ELSE IF at = "readwt" THEN "checkout"
                   ELSE IF at = "checkout" THEN "readidx"
                   ELSE IF at = "readidx" THEN "done" ELSE "failed"]
Thrown(r, at) == [r EXCEPT !.pc = "failed", !.failedAt = at]

RestoreStep ==
  /\ \E ok \in Outcomes :
       /\ budget' = Spent(ok)
       /\ \/ /\ rst.pc = "root"                     \* getRepoRoot, then the guard
             /\ rst' = IF ok THEN UnbornGuard(rst)
                       ELSE Thrown(rst, "root")
             /\ UNCHANGED repoVars
          \/ /\ rst.pc = "reset"                    \* 1. git reset --hard headSha
             /\ IF ok /\ ~IndexLocked /\ rst.rec.headSha # ZEROS
                THEN /\ head' = rst.rec.headSha
                     /\ index' = TreeOf(rst.rec.headSha)
                     /\ worktree' = ResetHardWorktree(index, worktree,
                                                      TreeOf(rst.rec.headSha))
                     /\ rst' = [rst EXCEPT !.pc = "readwt"]
                ELSE /\ rst' = Thrown(rst, "reset")
                     /\ UNCHANGED repoVars
          \/ /\ rst.pc = "readwt"                   \* 2. git read-tree --reset wt
             /\ IF ok /\ ~IndexLocked
                THEN /\ index' = rst.rec.worktreeTreeSha
                     /\ rst' = [rst EXCEPT !.pc = "checkout"]
                ELSE /\ rst' = Thrown(rst, "readwt")
                     /\ UNCHANGED index
             /\ UNCHANGED <<head, worktree>>
          \/ /\ rst.pc = "checkout"                 \* 3. git checkout-index -a -f
             /\ IF ok
                THEN /\ worktree' = CheckoutIndex(index, worktree)
                     /\ rst' = [rst EXCEPT !.pc = "readidx"]
                ELSE /\ rst' = Thrown(rst, "checkout")
                     /\ UNCHANGED worktree
             /\ UNCHANGED <<head, index>>
          \/ /\ rst.pc = "readidx"                  \* 4. git read-tree --reset idx
             /\ IF ok /\ ~IndexLocked
                THEN /\ index' = rst.rec.indexTreeSha
                     /\ rst' = [rst EXCEPT !.pc = "done"]
                ELSE /\ rst' = Thrown(rst, "readidx")
                     /\ UNCHANGED index
             /\ UNCHANGED <<head, worktree>>

(***************************************************************************)
(* The user, between the engine's operations: edits of the working tree,   *)
(* the index and the history.                                              *)
(***************************************************************************)
UserWrite ==
  \E p \in Paths, b \in Blobs :
    /\ worktree[p] # b
    /\ worktree' = [worktree EXCEPT ![p] = b]
    /\ UNCHANGED <<head, index>>

UserDelete ==
  \E p \in Paths :
    /\ worktree[p] # Absent
    /\ worktree' = [worktree EXCEPT ![p] = Absent]
    /\ UNCHANGED <<head, index>>

\* git add -f <path> (a removed file is staged as removed)
UserStage ==
  \E p \in Paths :
    /\ index[p] # worktree[p]
    /\ index' = [index EXCEPT ![p] = worktree[p]]
    /\ UNCHANGED <<head, worktree>>

\* git commit
UserCommit ==
  /\ head # Commit(index)
  /\ head' = Commit(index)
  /\ UNCHANGED <<index, worktree>>

UserEdit ==
  /\ budget.edits > 0
  /\ budget' = [budget EXCEPT !.edits = @ - 1]
  /\ (UserWrite \/ UserDelete \/ UserStage \/ UserCommit)

Tick ==
  /\ clock < MaxClock
  /\ clock' = clock + 1

(***************************************************************************)
(* The LSP hook (lsp/lsp-hook.ts): its LSPManager after construction.      *)
(***************************************************************************)
\* new LSPManager(cwd): no client, no creation under way, no key broken.
\* procs are the server processes spawned so far and calls the getDiagnostics
\* calls made so far, each in the order of its start
NewLSPManager ==
  [clients |-> [k \in {} |-> 0], pending |-> [k \in {} |-> 0], broken |-> {},
   creations |-> <<>>, calls |-> <<>>, returned |-> 0]

\* the LSP hook has made its manager and no tool result has reached it
LspHookLoaded == mgr = NewLSPManager

(***************************************************************************)
(* The hook: its state after construction.                                 *)
(***************************************************************************)
Sessions == {1, 2}
NoRecord == [id |-> None]

IdleBranch ==
  [pc |-> "idle", waitFor |-> {}, entriesSessionId |-> 0, target |-> 0,
   known |-> <<>>, checkpoint |-> NoRecord,
   oldest |-> NoRecord, hasOlder |-> FALSE, choice |-> "",
   before |-> NoRecord, outcome |-> "", result |-> "undefined",
   switched |-> FALSE]

HookInit ==
  /\ completedCheckpoints = <<>>
  /\ pendingCheckpoints = <<>>
  /\ gitAvailable = FALSE
  /\ checkpointingFailed = FALSE
  /\ currentSessionId = 0
  /\ currentSessionFile = 0
  /\ prunes = [k \in {} |-> None]
  /\ br = IdleBranch
  /\ notified = <<>>

(***************************************************************************)
(* The engine on its own: createCheckpoint of whatever state the user has  *)
(* made, later restoreCheckpoint of the record it returned.                *)
(***************************************************************************)
EngId == [sessionId |-> 1, kind |-> "turn", turn |-> 0, stamp |-> 0]

InitRepos ==
  { [head |-> ZEROS, index |-> EmptyTree, worktree |-> EmptyTree],
    [head |-> Commit([EmptyTree EXCEPT !["a.ts"] = "blobA"]),
     index |-> [EmptyTree EXCEPT !["a.ts"] = "blobA"],
     worktree |-> [EmptyTree EXCEPT !["a.ts"] = "blobA"]] }

NoCaps == [k \in {} |-> None]

InitGit ==
  /\ \E r \in InitRepos :
       head = r.head /\ index = r.index /\ worktree = r.worktree
  /\ refs = [i \in {} |-> None]
  /\ tmpDirs = {}
  /\ clock = 0
  /\ caps = NoCaps
  /\ rst = IdleRestore
  /\ budget = Budget(MaxEdits, 0, 0, 0)
  /\ eng = [phase |-> "edit", rec |-> None, pre |-> None, dirty |-> FALSE]
  /\ refWrites = 0
  /\ HookInit
  /\ LspHookLoaded

EngUserEdit ==
  /\ eng.phase \in {"edit", "mid"}
  /\ UserEdit
  /\ eng' = [eng EXCEPT !.dirty = TRUE]
  /\ UNCHANGED <<refs, tmpDirs, clock, caps, rst, refWrites>>
  /\ UNCHANGED hookVars

EngCapture ==
  /\ eng.phase = "edit"
  /\ caps' = [k \in {"eng"} |-> NewCapture(EngId, 0, 1)]
  /\ eng' = [eng EXCEPT !.phase = "capture", !.dirty = FALSE,
                        !.pre = [head |-> head, index |-> index,
                                 worktree |-> worktree]]
  /\ UNCHANGED <<head, index, worktree, refs, tmpDirs, clock, rst, budget, refWrites>>
  /\ UNCHANGED hookVars

EngCaptureStep ==
  /\ eng.phase = "capture"
  /\ CaptureStep("eng")
  /\ UNCHANGED <<clock, rst, eng>>
  /\ UNCHANGED hookVars

\* the finally block (rm of the temporary directory), then the return
EngCaptureReturn ==
  /\ eng.phase = "capture"
  /\ caps["eng"].pc = "settle"
  /\ \E rmOk \in RmOutcomes("eng") :
       /\ budget' = Spent(rmOk)
       /\ tmpDirs' = RmTmpDir(caps["eng"], "eng", rmOk)
       /\ caps' = [caps EXCEPT !["eng"] = Finished(caps["eng"], "eng", rmOk)]
  /\ eng' = [eng EXCEPT !.phase = IF caps["eng"].ok THEN "mid" ELSE "end",
                        !.rec = IF caps["eng"].ok THEN CheckpointData(caps["eng"])
                                ELSE None]
  /\ UNCHANGED <<head, index, worktree, refs, clock, rst, refWrites>>
  /\ UNCHANGED hookVars

EngRestore ==
  /\ eng.phase = "mid"
  /\ rst' = StartRestore(eng.rec)
  /\ eng' = [eng EXCEPT !.phase = "restore"]
  /\ UNCHANGED <<head, index, worktree, refs, tmpDirs, clock, caps, budget, refWrites>>
  /\ UNCHANGED hookVars

EngRestoreStep ==
  /\ eng.phase = "restore"
  /\ RestoreStep
  /\ UNCHANGED <<refs, tmpDirs, clock, caps, eng, refWrites>>
  /\ UNCHANGED hookVars

NextGit ==
  \/ EngUserEdit
  \/ EngCapture
  \/ EngCaptureStep
  \/ EngCaptureReturn
  \/ EngRestore
  \/ EngRestoreStep

SpecGit == InitGit /\ [][NextGit]_vars


(***************************************************************************)
(* Claims about the engine alone (checked under SpecGit).                  *)
(***************************************************************************)
Restoring == rst.pc # "idle"
RepoIs(r) == head = r.head /\ index = r.index /\ worktree = r.worktree

\* C1 (as claimed): at no point of restoreCheckpoint is a file missing from disk
\* that was on disk when the restore began and whose path is not an entry of
\* the record's worktree tree.
C1_RestoreRemovesNoFileOutsideSnapshot ==
  Restoring =>
    \A p \in Paths :
      (rst.pre.worktree[p] # Absent /\ rst.rec.worktreeTreeSha[p] = Absent)
        => worktree[p] # Absent

\* C2 (as claimed): createCheckpoint followed immediately by restoreCheckpoint
\* of the returned record leaves HEAD, the index and the working tree as they
\* were before the capture.
C2_CaptureRestoreRoundTrip ==
  (eng.phase = "restore" /\ rst.pc = "done" /\ ~eng.dirty) => RepoIs(eng.pre)

\* C6: restoreCheckpoint of a record whose headSha is the sentinel stops at the
\* guard: none of the four steps runs, the failure is the guard's, and HEAD,
\* index and working tree stay as the call found them.
C6_UnbornHeadRestoreGuard ==
  (Restoring /\ rst.rec.headSha = ZEROS) =>
    /\ rst.pc \in {"root", "failed"}
    /\ rst.failedAt \in {"", "root", "guard"}
    /\ RepoIs(rst.pre)

C6_Witness ==
  /\ Restoring /\ rst.rec.headSha = ZEROS
  /\ rst.pc = "failed" /\ rst.failedAt = "guard"
  /\ Entries(worktree) # {}

\* C7: a capture that reads HEAD while the repository has no commits does not
\* fail at that step, carries the sentinel as headSha, and once it returns the
\* ref of its id exists, with the sentinel in its head line and in the record.
C7_UnbornHeadCapture ==
  \A k \in DOMAIN caps :
    caps[k].sawUnborn =>
      /\ caps[k].failedAt # "head"
      /\ caps[k].headSha = ZEROS
      /\ caps[k].ok =>
           /\ caps[k].id \in DOMAIN refs
           /\ refs[caps[k].id].head = ZEROS
           /\ CheckpointData(caps[k]).headSha = ZEROS

C7_Witness ==
  /\ "eng" \in DOMAIN caps
  /\ caps["eng"].sawUnborn /\ caps["eng"].pc = "settle" /\ caps["eng"].ok
  /\ EngId \in DOMAIN refs

(***************************************************************************)
(* Smart filtering as the checkpoint README describes it.                  *)
(***************************************************************************)
IGNORED_DIRS ==
  {"node_modules", ".venv", "venv", "env", ".env", "dist", "build",
   ".pytest_cache", ".mypy_cache", ".cache", ".tox", "__pycache__"}
\* 10 MiB
MAX_FILE_SIZE == 10485760
MAX_DIR_FILES == 200

DirOf(p) == IF p = "node_modules/x.js" THEN "node_modules" ELSE "."
\* blobB is an 11 MiB file, blobA a 1 KiB one
FileSize(b) == IF b = "blobB" THEN 11534336 ELSE 1024
FilesInDir(wt, d) == Cardinality({q \in Paths : DirOf(q) = d /\ wt[q] # Absent})

\* C10 (as claimed): the worktree tree of a record holds no file under an
\* ignored directory name, no untracked file above 10 MiB and no file of an
\* untracked directory with more than 200 files.
C10_SmartFilterExclusion ==
  (eng.phase \in {"mid", "restore"}) =>
    \A p \in Entries(eng.rec.worktreeTreeSha) :
      /\ DirOf(p) \notin IGNORED_DIRS
      /\ ~(eng.pre.index[p] = Absent
             /\ FileSize(eng.rec.worktreeTreeSha[p]) > MAX_FILE_SIZE)
      /\ ~(DirOf(p) # "."
             /\ \A q \in Paths : DirOf(q) = DirOf(p) => eng.pre.index[q] = Absent
             /\ FilesInDir(eng.pre.worktree, DirOf(p)) > MAX_DIR_FILES)


(***************************************************************************)
(* The hook: refs on disk, loading them, session_start, turn_start.        *)
(***************************************************************************)
\* turn_start events that start a capture, branch events, per behaviour
MaxTurns == 1
MaxBranches == 1
MaxPrunes == 1
\* the cap on live refs (100 in the source), scaled to the model
MAX_CHECKPOINTS == 2

TurnSlots == <<"turn1", "turn2", "turn3", "turn4", "turn5">>
TurnIndexes == {0}

\* refs/pi-checkpoints/<sessionId>-turn-<turnIndex>-<timestamp> and
\* refs/pi-checkpoints/<sessionId>-before-restore-<timestamp>, as a record;
\* IdLess is the order of the ref names as strings
TurnId(sid, turnIndex, stamp) ==
  [sessionId |-> sid, kind |-> "turn", turn |-> turnIndex, stamp |-> stamp]
BeforeId(sid, stamp) ==
  [sessionId |-> sid, kind |-> "before-restore", turn |-> 0, stamp |-> stamp]
KindRank(k) == IF k = "before-restore" THEN 0 ELSE 1
IdLess(i, j) ==
  \/ i.sessionId < j.sessionId
  \/ /\ i.sessionId = j.sessionId
     /\ \/ KindRank(i.kind) < KindRank(j.kind)
        \/ /\ i.kind = j.kind
           /\ \/ i.turn < j.turn
              \/ i.turn = j.turn /\ i.stamp < j.stamp

\* git for-each-ref: the ref names, sorted by name
RECURSIVE ListCheckpointRefs(_)
ListCheckpointRefs(ids) ==
  IF ids = {} THEN <<>>
  ELSE LET m == CHOOSE x \in ids : \A y \in ids \ {x} : IdLess(x, y)
       IN <<m>> \o ListCheckpointRefs(ids \ {m})

\* loadCheckpointFromRef: the record parsed from the message lines; null when
\* a line does not match (an empty session id leaves "sessionId " unmatched)
LoadCheckpointFromRef(refName) ==
  LET c == refs[refName] IN
  IF c.sessionId = 0 THEN NoRecord
  ELSE [id |-> refName, turnIndex |-> c.turn, sessionId |-> c.sessionId,
        headSha |-> c.head, indexTreeSha |-> c.indexTree,
        worktreeTreeSha |-> c.worktreeTree, timestamp |-> c.created]

HasId(known, id) == \E n \in 1..Len(known) : known[n].id = id

\* loadCheckpointsForSession: the loop over the listed refs
RECURSIVE LoadInto(_, _, _)
LoadInto(known, names, sessionId) ==
  IF names = <<>> THEN known
  ELSE LET data == LoadCheckpointFromRef(Head(names))
           next == IF data # NoRecord /\ data.sessionId = sessionId
                      /\ ~HasId(known, data.id)
                   THEN Append(known, data) ELSE known
       IN LoadInto(next, Tail(names), sessionId)

\* ok: git for-each-ref succeeded; listCheckpointRefs returns [] when it fails
LoadCheckpointsForSessionMutantNeverClears(known, sessionId, clearExisting, ok) ==
  LoadInto(known, IF ok THEN ListCheckpointRefs(DOMAIN refs) ELSE <<>>, sessionId)
LoadCheckpointsForSessionMutantAlwaysClears(known, sessionId, clearExisting, ok) ==
  LoadInto(<<>>, IF ok THEN ListCheckpointRefs(DOMAIN refs) ELSE <<>>, sessionId)
LoadCheckpointsForSession(known, sessionId, clearExisting, ok) ==
  LoadInto(IF clearExisting THEN <<>> ELSE known,
           IF ok THEN ListCheckpointRefs(DOMAIN refs) ELSE <<>>, sessionId)

\* getSessionIdFromFile: the id of the file's header, or "" when unreadable
GetSessionIdFromFile(file) == IF file = 0 THEN {0} ELSE {file, 0}

hookRest == <<prunes, br, notified>>

SessionStart ==
  /\ ~gitAvailable
  /\ gitAvailable' = TRUE
  /\ \E file \in {0, 1} :
       IF file # 0
       THEN /\ currentSessionFile' = file
            /\ \E sid \in GetSessionIdFromFile(file), ok \in Outcomes :
                 /\ budget' = Spent(ok \/ sid = 0)
                 /\ currentSessionId' = sid
                 /\ completedCheckpoints' =
                      IF sid # 0
                      THEN LoadCheckpointsForSession(completedCheckpoints, sid,
                                                     TRUE, ok)
                      ELSE completedCheckpoints
       ELSE UNCHANGED <<currentSessionFile, currentSessionId,
                        completedCheckpoints, budget>>
  /\ UNCHANGED <<pendingCheckpoints, checkpointingFailed>>
  /\ UNCHANGED hookRest
  /\ UNCHANGED <<head, index, worktree, refs, tmpDirs, clock, caps, rst, eng,
                 refWrites, mgr>>

\* if (!gitAvailable || checkpointingFailed) return
TurnStartGuardMutantIgnoresFailure == gitAvailable
TurnStartGuard == gitAvailable /\ ~checkpointingFailed

\* the host numbers the turns and stamps its events: no two turn_start
\* events of a session carry the same turnIndex and the same timestamp
FreshTurnEvent(id) == \A k \in DOMAIN caps : caps[k].id # id

\* turn_start: up to the first await of the capture it starts
TurnStart ==
  /\ TurnStartGuard
  /\ budget.turns > 0
  /\ budget' = [budget EXCEPT !.turns = @ - 1]
  /\ \E turnIndex \in TurnIndexes :
     \E sid \in (IF currentSessionId = 0 /\ currentSessionFile # 0
                 THEN GetSessionIdFromFile(currentSessionFile)
                 ELSE {currentSessionId}) :
       /\ sid # 0
       /\ FreshTurnEvent(TurnId(sid, turnIndex, Now))
       /\ currentSessionId' = sid
       /\ LET k == TurnSlots[Len(pendingCheckpoints) + 1] IN
          /\ caps' = [x \in DOMAIN caps \cup {k} |->
                        IF x = k
                        THEN NewCapture(TurnId(sid, turnIndex, Now), turnIndex, sid)
                        ELSE caps[x]]
          /\ pendingCheckpoints' = Append(pendingCheckpoints, k)
  /\ UNCHANGED <<completedCheckpoints, gitAvailable, checkpointingFailed,
                 currentSessionFile>>
  /\ UNCHANGED hookRest
  /\ UNCHANGED <<head, index, worktree, refs, tmpDirs, clock, rst, eng,
                 refWrites, mgr>>

Pending(k) == \E n \in 1..Len(pendingCheckpoints) : pendingCheckpoints[n] = k

TurnCaptureStep ==
  \E k \in DOMAIN caps :
    /\ Pending(k)
    /\ CaptureStep(k)
    /\ UNCHANGED <<clock, rst, eng>>
    /\ UNCHANGED hookVars

(***************************************************************************)
(* pruneCheckpoints.                                                       *)
(***************************************************************************)
\* git for-each-ref --sort=committerdate: by committer date, ties by name
RefBefore(i, j) ==
  \/ refs[i].committerdate < refs[j].committerdate
  \/ refs[i].committerdate = refs[j].committerdate /\ IdLess(i, j)

RECURSIVE RefsByCommitterDate(_)
RefsByCommitterDate(ids) ==
  IF ids = {} THEN <<>>
  ELSE LET m == CHOOSE x \in ids : \A y \in ids \ {x} : RefBefore(x, y)
       IN <<m>> \o RefsByCommitterDate(ids \ {m})

PruneToDeleteMutantKeepsOneMore(sorted) ==
  IF Len(sorted) <= MAX_CHECKPOINTS + 1 THEN <<>>
  ELSE SubSeq(sorted, 1, Len(sorted) - MAX_CHECKPOINTS - 1)
PruneToDelete(sorted) ==
  IF Len(sorted) <= MAX_CHECKPOINTS THEN <<>>
  ELSE SubSeq(sorted, 1, Len(sorted) - MAX_CHECKPOINTS)

\* listed, scheduled, seenWrites and failed are history: the refs the listing
\* saw, the refs it put up for deletion, the number of ref writes at that
\* moment, whether a command of this prune failed
NewPrune ==
  [pc |-> "list", toDelete |-> <<>>, listed |-> refs, scheduled |-> <<>>,
   seenWrites |-> 0, failed |-> FALSE]

\* the loop after one git update-ref -d: its error, if any, is dropped by the
\* .catch and the loop goes on
AfterDeleteMutantStopsAtFailure(pr, ok) ==
  [pr EXCEPT !.toDelete = IF ok THEN Tail(pr.toDelete) ELSE pr.toDelete,
             !.pc = IF ok /\ Tail(pr.toDelete) # <<>> THEN "del" ELSE "done",
             !.failed = pr.failed \/ ~ok]
AfterDelete(pr, ok) ==
  [pr EXCEPT !.toDelete = Tail(pr.toDelete),
             !.pc = IF Tail(pr.toDelete) = <<>> THEN "done" ELSE "del",
             !.failed = pr.failed \/ ~ok]

PruneStep ==
  /\ \E k \in DOMAIN prunes : \E ok \in Outcomes :
       /\ budget' = Spent(ok)
       /\ LET pr == prunes[k] IN
          \/ /\ pr.pc = "list"              \* getRepoRoot, git for-each-ref
             /\ LET td == IF ok THEN PruneToDelete(RefsByCommitterDate(DOMAIN refs))
                          ELSE <<>>
                IN prunes' = [prunes EXCEPT ![k] =
                     [pc |-> IF td = <<>> THEN "done" ELSE "del",
                      toDelete |-> td, listed |-> refs, scheduled |-> td,
                      seenWrites |-> refWrites, failed |-> ~ok]]
             /\ UNCHANGED refs
          \/ /\ pr.pc = "del"               \* git update-ref -d, errors dropped
             /\ refs' = IF ok
                        THEN [i \in DOMAIN refs \ {Head(pr.toDelete)} |-> refs[i]]
                        ELSE refs
             /\ prunes' = [prunes EXCEPT ![k] = AfterDelete(pr, ok)]
  /\ UNCHANGED <<completedCheckpoints, pendingCheckpoints, gitAvailable,
                 checkpointingFailed, currentSessionId, currentSessionFile,
                 br, notified>>
  /\ UNCHANGED <<head, index, worktree, tmpDirs, clock, caps, rst, eng,
                 refWrites, mgr>>

\* what checkpointPromise settles to: the closure's try returns the record,
\* its catch returns null
SettledMutantNoCatch(t) == IF t.ok THEN "record" ELSE "rejected"
Settled(t) == IF t.ok THEN "record" ELSE "null"

\* the capture's finally block, then the rest of the turn_start closure
TurnCaptureReturn ==
  \E k \in DOMAIN caps :
    /\ Pending(k)
    /\ caps[k].pc = "settle"
    /\ \E rmOk \in RmOutcomes(k) :
       /\ tmpDirs' = RmTmpDir(caps[k], k, rmOk)
       /\ caps' = [caps EXCEPT ![k] =
                     [Finished(caps[k], k, rmOk) EXCEPT !.promise = Settled(caps[k])]]
       /\ IF caps[k].ok
          THEN /\ completedCheckpoints' =
                    Append(completedCheckpoints, CheckpointData(caps[k]))
               /\ \E random \in {r \in BOOLEAN : r => budget.prunes > 0} :
                    IF random                    \* Math.random() < 0.1
                    THEN /\ prunes' = [x \in DOMAIN prunes \cup {k} |->
                                         IF x = k THEN NewPrune ELSE prunes[x]]
                         /\ budget' = [Spent(rmOk) EXCEPT !.prunes = @ - 1]
                    ELSE /\ budget' = Spent(rmOk)
                         /\ UNCHANGED prunes
               /\ UNCHANGED checkpointingFailed
          ELSE /\ checkpointingFailed' = IF Settled(caps[k]) = "null"
                                         THEN TRUE ELSE checkpointingFailed
               /\ budget' = Spent(rmOk)
               /\ UNCHANGED <<completedCheckpoints, prunes>>
    /\ UNCHANGED <<pendingCheckpoints, gitAvailable, currentSessionId,
                   currentSessionFile, br, notified>>
    /\ UNCHANGED <<head, index, worktree, refs, clock, rst, eng,
                 refWrites, mgr>>

(***************************************************************************)
(* The branch handler.                                                     *)
(***************************************************************************)
\* Array.prototype.sort is stable: records with equal timestamps keep the
\* order they had
RECURSIVE InsertDesc(_, _)
InsertDesc(x, sorted) ==
  IF sorted = <<>> THEN <<x>>
  ELSE IF Head(sorted).timestamp < x.timestamp THEN <<x>> \o sorted
  ELSE <<Head(sorted)>> \o InsertDesc(x, Tail(sorted))

\* [...completedCheckpoints].sort((a, b) => b.timestamp - a.timestamp)
RECURSIVE SortDesc(_)
SortDesc(recs) ==
  IF recs = <<>> THEN <<>>
  ELSE InsertDesc(recs[Len(recs)], SortDesc(SubSeq(recs, 1, Len(recs) - 1)))

RECURSIVE InsertAsc(_, _)
InsertAsc(x, sorted) ==
  IF sorted = <<>> THEN <<x>>
  ELSE IF x.timestamp < Head(sorted).timestamp THEN <<x>> \o sorted
  ELSE <<Head(sorted)>> \o InsertAsc(x, Tail(sorted))

\* .sort((a, b) => a.timestamp - b.timestamp)
RECURSIVE SortAsc(_)
SortAsc(recs) ==
  IF recs = <<>> THEN <<>>
  ELSE InsertAsc(recs[Len(recs)], SortAsc(SubSeq(recs, 1, Len(recs) - 1)))

\* .filter((cp) => cp.timestamp >= targetTimestamp)
AtOrAfterMutantStrictlyAfter(cp, targetTimestamp) == cp.timestamp > targetTimestamp
AtOrAfter(cp, targetTimestamp) == cp.timestamp >= targetTimestamp

CheckpointsAtOrAfterTarget(allCheckpoints, targetTimestamp) ==
  SortAsc(SelectSeq(allCheckpoints, LAMBDA cp : AtOrAfter(cp, targetTimestamp)))

\* the record the handler picks, or no record
SelectCheckpointMutantFallsBackToLatest(allCheckpoints, targetTimestamp) ==
  LET found == CheckpointsAtOrAfterTarget(allCheckpoints, targetTimestamp) IN
  IF found = <<>>
  THEN (IF allCheckpoints = <<>> THEN NoRecord ELSE allCheckpoints[1])
  ELSE found[1]
SelectCheckpoint(allCheckpoints, targetTimestamp) ==
  LET found == CheckpointsAtOrAfterTarget(allCheckpoints, targetTimestamp) IN
  IF found = <<>> THEN NoRecord ELSE found[1]

\* ctx.ui.notify(message, level); error is the message of the error caught,
\* named by the command that failed
Notify(message, level) == [message |-> message, level |-> level, error |-> ""]

\* the notification after a restore that went through
SuccessNotice(choice) ==
  Notify(IF choice = "Restore oldest" THEN "Restored to oldest checkpoint"
         ELSE IF choice = "Code only" THEN "Files restored to checkpoint"
         ELSE "Files and conversation restored", "info")

\* the notification of the catch around the before-restore capture and the
\* restore
ErrorNoticeMutantReportsSuccess(choice, error) == SuccessNotice(choice)
ErrorNotice(choice, error) ==
  [message |-> IF choice = "Restore all" THEN "File restore failed: "
               ELSE "Restore failed: ",
   level |-> "error", error |-> error]

\* a promise of pendingCheckpoints has settled
ResolvedMutantNoWait(k) == TRUE
Resolved(k) == caps[k].pc \in {"done", "failed"}

\* allCheckpoints[allCheckpoints.length - 1] of the list sorted by timestamp
\* descending
OldestCheckpointMutantTakesLatest(allCheckpoints) == allCheckpoints[1]
OldestCheckpoint(allCheckpoints) == allCheckpoints[Len(allCheckpoints)]

\* the event arrives; the handler awaits Promise.all(pendingCheckpoints)
BranchStart ==
  /\ gitAvailable
  /\ br.pc = "idle"
  /\ budget.branches > 0
  /\ budget' = [budget EXCEPT !.branches = @ - 1]
  /\ br' = [IdleBranch EXCEPT
              !.pc = "await",
              !.waitFor = {pendingCheckpoints[n] : n \in 1..Len(pendingCheckpoints)}]
  /\ notified' = <<>>
  /\ UNCHANGED <<completedCheckpoints, pendingCheckpoints, gitAvailable,
                 checkpointingFailed, currentSessionId, currentSessionFile, prunes>>
  /\ UNCHANGED <<head, index, worktree, refs, tmpDirs, clock, caps, rst,
                 eng, refWrites, mgr>>

\* the pending captures have resolved: load the entries' session if it is not
\* the current one, pick the checkpoint, prompt
BranchSelect ==
  /\ br.pc = "await"
  /\ \A k \in br.waitFor : Resolved(k)
  /\ \E targetTick \in 0..clock, entriesSessionId \in Sessions \cup {0},
        ok \in Outcomes :
       LET targetTimestamp == targetTick * TickMs
           loads == entriesSessionId # 0 /\ entriesSessionId # currentSessionId
           known == IF loads
                    THEN LoadCheckpointsForSession(completedCheckpoints,
                                                   entriesSessionId, FALSE, ok)
                    ELSE completedCheckpoints
           allCheckpoints == SortDesc(known)
           checkpoint == SelectCheckpoint(allCheckpoints, targetTimestamp)
       IN
       /\ budget' = Spent(ok \/ ~loads)
       /\ completedCheckpoints' = known
       /\ IF allCheckpoints = <<>>
          THEN /\ notified' = Append(notified,
                                Notify("No checkpoints available", "warning"))
               /\ br' = [br EXCEPT !.pc = "idle", !.outcome = "empty",
                                   !.target = targetTimestamp, !.known = known,
                                   !.entriesSessionId = entriesSessionId]
          ELSE IF checkpoint = NoRecord
          THEN /\ notified' = Append(notified,
                                Notify("No checkpoint found for this message",
                                       "warning"))
               /\ br' = [br EXCEPT !.pc = "idle", !.outcome = "notfound",
                                   !.target = targetTimestamp, !.known = known,
                                   !.entriesSessionId = entriesSessionId]
          ELSE /\ br' = [br EXCEPT !.pc = "prompt", !.outcome = "selected",
                                   !.target = targetTimestamp, !.known = known,
                                   !.entriesSessionId = entriesSessionId,
                                   !.checkpoint = checkpoint,
                                   !.oldest = OldestCheckpoint(allCheckpoints),
                                   !.hasOlder = Len(allCheckpoints) > 1]
               /\ UNCHANGED notified
  /\ UNCHANGED <<pendingCheckpoints, gitAvailable, checkpointingFailed,
                 currentSessionId, currentSessionFile, prunes>>
  /\ UNCHANGED <<head, index, worktree, refs, tmpDirs, clock, caps, rst, eng,
                 refWrites, mgr>>

Options(hasOlder) ==
  {"Restore all", "Conversation only", "Code only", "Cancel"}
    \cup (IF hasOlder THEN {"Restore oldest"} ELSE {})

\* what the handler returns for a choice: {skipConversationRestore: true} or
\* undefined
ResultOfMutantSkipsOnFailure(choice) ==
  IF choice \in {"", "Cancel", "Restore oldest", "Code only"} \/ rst.pc = "failed"
  THEN "skipConversationRestore" ELSE "undefined"
ResultOf(choice) ==
  IF choice \in {"", "Cancel", "Restore oldest", "Code only"}
  THEN "skipConversationRestore" ELSE "undefined"

\* the choices after which the handler returns at once: no choice or "Cancel"
\* (l.519), and "Conversation only", which matches none of the branches
KeepsFilesMutantConversationRestores(choice) == choice \in {"", "Cancel"}
KeepsFiles(choice) == choice \in {"", "Cancel", "Conversation only"}

\* the choices that take a snapshot of the current state before restoring
SavesBeforeRestore(choice) == choice \in {"Code only", "Restore all"}

\* the handler past the prompt; target, known and entriesSessionId record the
\* selection for the claims and are kept only while the prompt is open
Chosen(b, choice) ==
  [b EXCEPT !.choice = choice, !.target = 0, !.known = <<>>,
            !.entriesSessionId = 0]

\* Date.now() of a before-restore capture is later than the Date.now() of
\* the before-restore capture of an earlier handler: a restore and a prompt
\* lie between the two
LaterThanLastBefore ==
  "before" \in DOMAIN caps => caps["before"].id.stamp < Now

\* ctx.ui.select returns; "" stands for a dismissed prompt
BranchChoose ==
  /\ br.pc = "prompt"
  /\ \E choice \in Options(br.hasOlder) \cup {""}, targetTurnIndex \in TurnIndexes :
       IF KeepsFiles(choice)
       THEN /\ br' = [Chosen(br, choice) EXCEPT !.pc = "idle",
                                                !.result = ResultOf(choice)]
            /\ UNCHANGED <<caps, rst>>
       ELSE IF SavesBeforeRestore(choice)
       THEN /\ LaterThanLastBefore
            /\ br' = [Chosen(br, choice) EXCEPT !.pc = "before"]
            /\ caps' = [x \in DOMAIN caps \cup {"before"} |->
                          IF x = "before"
                          THEN NewCapture(BeforeId(currentSessionId, Now),
                                          targetTurnIndex, currentSessionId)
                          ELSE caps[x]]
            /\ UNCHANGED rst
       ELSE /\ br' = [Chosen(br, choice) EXCEPT !.pc = "restoring"]
            /\ rst' = StartRestore(IF choice = "Restore oldest"
                                   THEN br.oldest ELSE br.checkpoint)
            /\ UNCHANGED caps
  /\ UNCHANGED <<completedCheckpoints, pendingCheckpoints, gitAvailable,
                 checkpointingFailed, currentSessionId, currentSessionFile,
                 prunes, notified>>
  /\ UNCHANGED <<head, index, worktree, refs, tmpDirs, clock, budget, eng,
               refWrites, mgr>>

BranchBeforeStep ==
  /\ br.pc = "before"
  /\ CaptureStep("before")
  /\ UNCHANGED <<clock, rst, eng>>
  /\ UNCHANGED hookVars

\* the before-restore capture returns: the record joins the known set and
\* restoreCheckpoint is called; a failure goes to the catch
BranchBeforeReturn ==
  /\ br.pc = "before"
  /\ caps["before"].pc = "settle"
  /\ \E rmOk \in RmOutcomes("before") :
       /\ budget' = Spent(rmOk)
       /\ tmpDirs' = RmTmpDir(caps["before"], "before", rmOk)
       /\ caps' = [caps EXCEPT !["before"] = Finished(caps["before"], "before", rmOk)]
  /\ IF caps["before"].ok
     THEN /\ completedCheckpoints' =
               Append(completedCheckpoints, CheckpointData(caps["before"]))
          /\ br' = [br EXCEPT !.pc = "restoring",
                              !.before = CheckpointData(caps["before"])]
          /\ rst' = StartRestore(br.checkpoint)
          /\ UNCHANGED notified
     ELSE /\ notified' = Append(notified,
                                ErrorNotice(br.choice, caps["before"].failedAt))
          /\ br' = [br EXCEPT !.pc = "idle", !.result = ResultOf(br.choice)]
          /\ UNCHANGED <<completedCheckpoints, rst>>
  /\ UNCHANGED <<pendingCheckpoints, gitAvailable, checkpointingFailed,
                 currentSessionId, currentSessionFile, prunes>>
  /\ UNCHANGED <<head, index, worktree, refs, clock, eng, refWrites, mgr>>

BranchRestoreStep ==
  /\ br.pc = "restoring"
  /\ RestoreStep
  /\ UNCHANGED <<refs, tmpDirs, clock, caps, eng, refWrites>>
  /\ UNCHANGED hookVars

\* restoreCheckpoint returned or threw: notify, return
BranchRestoreReturn ==
  /\ br.pc = "restoring"
  /\ rst.pc \in {"done", "failed"}
  /\ notified' = Append(notified,
       IF rst.pc = "done" THEN SuccessNotice(br.choice)
       ELSE ErrorNotice(br.choice, rst.failedAt))
  /\ br' = [br EXCEPT !.pc = "idle", !.result = ResultOf(br.choice)]
  /\ rst' = IdleRestore
  /\ UNCHANGED <<completedCheckpoints, pendingCheckpoints, gitAvailable,
                 checkpointingFailed, currentSessionId, currentSessionFile,
                 prunes>>
  /\ UNCHANGED <<head, index, worktree, refs, tmpDirs, clock, caps, budget, eng,
                 refWrites, mgr>>

\* session_switch with reason "branch": the host sends it once the branch
\* handler has returned
SessionSwitch ==
  /\ gitAvailable
  /\ br.pc = "idle" /\ br.outcome # "" /\ ~br.switched
  /\ br' = [br EXCEPT !.switched = TRUE]
  /\ \E file \in Sessions : \E sid \in GetSessionIdFromFile(file) :
       /\ sid # currentSessionId
       /\ currentSessionId' = sid
  /\ UNCHANGED <<completedCheckpoints, pendingCheckpoints, gitAvailable,
                 checkpointingFailed, currentSessionFile, prunes, notified>>
  /\ UNCHANGED <<head, index, worktree, refs, tmpDirs, clock, caps, rst, budget,
                 eng, refWrites, mgr>>

\* the files a tool call of the agent writes or removes; no tool call runs
\* while the branch handler runs
EditedPaths == {"a.ts"}

HookUserEdit ==
  /\ rst.pc = "idle" /\ br.pc = "idle"
  /\ budget.edits > 0
  /\ budget' = [budget EXCEPT !.edits = @ - 1]
  /\ \E p \in EditedPaths, b \in Blobs \cup {Absent} :
       /\ worktree[p] # b
       /\ worktree' = [worktree EXCEPT ![p] = b]
  /\ UNCHANGED <<head, index>>
  /\ UNCHANGED <<refs, tmpDirs, clock, caps, rst, eng, refWrites>>
  /\ UNCHANGED hookVars

HookTick ==
  /\ Tick
  /\ UNCHANGED <<head, index, worktree, refs, tmpDirs, caps, rst, budget, eng,
                 refWrites>>
  /\ UNCHANGED hookVars

(***************************************************************************)
(* The hook in a repository that may hold checkpoints of an earlier run.   *)
(***************************************************************************)
\* the checkpoint named id that an earlier process took of repository r at
\* time 0
PriorCommit(r, id) ==
  MetadataCommit([NewCapture(id, id.turn, id.sessionId) EXCEPT
                    !.headSha = r.head, !.indexTreeSha = r.index,
                    !.worktreeTreeSha = AddAll(r.worktree)])

PriorRefs(r) ==
  { [i \in {} |-> None],
    [i \in {TurnId(2, 0, 0), TurnId(1, 1, 0)} |-> PriorCommit(r, i)] }

HookRepo ==
  [head |-> Commit([EmptyTree EXCEPT !["a.ts"] = "blobA"]),
   index |-> [EmptyTree EXCEPT !["a.ts"] = "blobA"],
   worktree |-> [EmptyTree EXCEPT !["a.ts"] = "blobA"]]

\* the extension is loaded; b is what the environment does in this behaviour
HookLoaded(b) ==
  /\ head = HookRepo.head /\ index = HookRepo.index
  /\ worktree = HookRepo.worktree
  /\ refs \in PriorRefs(HookRepo)
  /\ tmpDirs = {}
  /\ clock = 1
  /\ caps = NoCaps
  /\ rst = IdleRestore
  /\ budget = b
  /\ eng = [phase |-> "off", rec |-> None, pre |-> None, dirty |-> FALSE]
  /\ refWrites = 0
  /\ HookInit
  /\ LspHookLoaded

\* sessions, turns, tool calls and branches; no random draw starts a prune
Init == HookLoaded(Budget(MaxHookEdits, MaxTurns, MaxBranches, 0))

Next ==
  \/ SessionStart
  \/ TurnStart
  \/ TurnCaptureStep
  \/ TurnCaptureReturn
  \/ BranchStart
  \/ BranchSelect
  \/ BranchChoose
  \/ BranchBeforeStep
  \/ BranchBeforeReturn
  \/ BranchRestoreStep
  \/ BranchRestoreReturn
  \/ SessionSwitch
  \/ HookUserEdit
  \/ HookTick

Spec == Init /\ [][Next]_vars

\* sessions, turns, prunes and branches in a working tree no tool call edits
InitPrune == HookLoaded(Budget(0, MaxTurns, MaxBranches, MaxPrunes))

NextPrune ==
  \/ SessionStart
  \/ TurnStart
  \/ TurnCaptureStep
  \/ TurnCaptureReturn
  \/ PruneStep
  \/ BranchStart
  \/ BranchSelect
  \/ BranchChoose
  \/ BranchBeforeStep
  \/ BranchBeforeReturn
  \/ BranchRestoreStep
  \/ BranchRestoreReturn
  \/ SessionSwitch
  \/ HookTick

SpecPrune == InitPrune /\ [][NextPrune]_vars

(***************************************************************************)
(* The branch handler's selection (under Spec).                            *)
(***************************************************************************)
\* the records of known captured at or after the target
AtOrAfterIn(known, targetTimestamp) ==
  {n \in 1..Len(known) : known[n].timestamp >= targetTimestamp}

\* the handler has just decided: the prompt is open, or it returned with a
\* warning; br.known and br.target are the set and the target it decided on
Decided == br.pc = "prompt" \/ br.outcome \in {"empty", "notfound"}

\* C3: the checkpoint the branch handler chooses is a known record captured at
\* or after the target whose timestamp is the least among such records, and
\* the handler chooses no record when no known record is at or after the target
C3_SelectorCorrectness ==
  Decided =>
    IF AtOrAfterIn(br.known, br.target) # {}
    THEN /\ br.pc = "prompt"
         /\ \E n \in AtOrAfterIn(br.known, br.target) : br.known[n] = br.checkpoint
         /\ \A n \in AtOrAfterIn(br.known, br.target) :
              br.checkpoint.timestamp <= br.known[n].timestamp
    ELSE br.pc = "idle" /\ br.checkpoint = NoRecord

\* a record before the target was passed over and the chosen one is strictly
\* after the target
C3_Witness ==
  /\ br.pc = "prompt"
  /\ \E n \in 1..Len(br.known) : br.known[n].timestamp < br.target
  /\ br.checkpoint.timestamp > br.target

\* C4: when the handler finds no known record at or after the target (the
\* known set may be empty), the step that decides returns from the handler:
\* no prompt, no before-restore capture, no restore, HEAD, index, working tree
\* and refs as they were, and one notification, a warning
C4_NoFallbackOnNotFound ==
  [][(/\ br.pc = "await"
      /\ br'.pc # "await"
      /\ AtOrAfterIn(br'.known, br'.target) = {})
     => /\ br'.pc = "idle"
        /\ br'.checkpoint = NoRecord
        /\ UNCHANGED <<head, index, worktree, refs, caps, rst, tmpDirs>>
        /\ Len(notified') = 1
        /\ notified'[1].level = "warning"]_vars

\* the handler returned "not found" although it knew records, all of them
\* captured before the target
C4_Witness ==
  /\ br.pc = "idle"
  /\ br.outcome = "notfound"
  /\ Len(br.known) > 0
  /\ rst.pc = "idle"
  /\ "before" \notin DOMAIN caps

\* C5: whenever the branch handler is in restoreCheckpoint, a before-restore
\* capture of this handler has returned its record, the record's ref exists
\* and the record is in the known set
C5_BeforeRestoreSnapshot ==
  br.pc = "restoring" =>
    /\ br.before # NoRecord
    /\ HasId(completedCheckpoints, br.before.id)
    /\ br.before.id \in DOMAIN refs

(***************************************************************************)
(* Retention (under SpecPrune).                                            *)
(***************************************************************************)
\* pruneCheckpoints k ran to its end, no command of it failed, and no ref was
\* written since it listed the refs
PrunedUndisturbed(k) ==
  /\ prunes[k].pc = "done"
  /\ ~prunes[k].failed
  /\ prunes[k].seenWrites = refWrites

\* C8: after an undisturbed prune that found more than MAX_CHECKPOINTS refs,
\* exactly MAX_CHECKPOINTS refs remain and each of them was captured no
\* earlier than each ref the prune deleted; a prune that found at most
\* MAX_CHECKPOINTS refs deleted nothing
C8_RetentionBoundAfterPrune ==
  \A k \in DOMAIN prunes :
    PrunedUndisturbed(k) =>
      LET listed == prunes[k].listed
          deleted == DOMAIN listed \ DOMAIN refs
      IN IF Cardinality(DOMAIN listed) > MAX_CHECKPOINTS
         THEN /\ Cardinality(DOMAIN refs) = MAX_CHECKPOINTS
              /\ \A s \in DOMAIN refs : \A d \in deleted :
                   refs[s].created >= listed[d].created
         ELSE deleted = {}

\* C9 as stated: the number of live refs never exceeds MAX_CHECKPOINTS
C9_RefCountNeverExceedsCap == Cardinality(DOMAIN refs) <= MAX_CHECKPOINTS

\* C9: after an undisturbed prune the number of live refs is at most
\* MAX_CHECKPOINTS
C9_RefCountBoundAfterPrune ==
  \A k \in DOMAIN prunes :
    PrunedUndisturbed(k) => Cardinality(DOMAIN refs) <= MAX_CHECKPOINTS

\* an undisturbed prune that found more refs than the cap and deleted some
C9_Witness ==
  \E k \in DOMAIN prunes :
    /\ PrunedUndisturbed(k)
    /\ Cardinality(DOMAIN prunes[k].listed) > MAX_CHECKPOINTS
    /\ DOMAIN prunes[k].listed \ DOMAIN refs # {}

(***************************************************************************)
(* Two createCheckpoint calls with distinct ids, started together in one   *)
(* repository; no command fails for a reason outside the program.          *)
(***************************************************************************)
PairSlots == {"c1", "c2"}
PairId(k) == TurnId(1, IF k = "c1" THEN 0 ELSE 1, 0)

InitCaptures ==
  /\ \E r \in InitRepos :
       head = r.head /\ index = r.index /\ worktree = r.worktree
  /\ refs = [i \in {} |-> None]
  /\ tmpDirs = {}
  /\ clock = 0
  /\ caps = [k \in PairSlots |-> NewCapture(PairId(k), PairId(k).turn, 1)]
  /\ rst = IdleRestore
  /\ budget = NoFaults(Budget(MaxHookEdits, 0, 0, 0))
  /\ eng = [phase |-> "off", rec |-> None, pre |-> None, dirty |-> FALSE]
  /\ refWrites = 0
  /\ HookInit
  /\ LspHookLoaded

PairCaptureStep ==
  \E k \in PairSlots :
    /\ CaptureStep(k)
    /\ UNCHANGED <<clock, rst, eng>>
    /\ UNCHANGED hookVars

\* the finally block and the return
PairCaptureReturn ==
  \E k \in PairSlots :
    /\ caps[k].pc = "settle"
    /\ \E rmOk \in RmOutcomes(k) :
         /\ budget' = Spent(rmOk)
         /\ tmpDirs' = RmTmpDir(caps[k], k, rmOk)
         /\ caps' = [caps EXCEPT ![k] = Finished(caps[k], k, rmOk)]
    /\ UNCHANGED <<head, index, worktree, refs, clock, rst, eng, refWrites>>
    /\ UNCHANGED hookVars

PairUserEdit ==
  /\ budget.edits > 0
  /\ budget' = [budget EXCEPT !.edits = @ - 1]
  /\ (UserWrite \/ UserDelete)
  /\ UNCHANGED <<refs, tmpDirs, clock, caps, rst, eng, refWrites>>
  /\ UNCHANGED hookVars

PairTick ==
  /\ Tick
  /\ UNCHANGED <<head, index, worktree, refs, tmpDirs, caps, rst, budget, eng,
                 refWrites>>
  /\ UNCHANGED hookVars

NextCaptures ==
  \/ PairCaptureStep
  \/ PairCaptureReturn
  \/ PairUserEdit
  \/ PairTick

SpecCaptures == InitCaptures /\ [][NextCaptures]_vars

\* C11: of two createCheckpoint calls with distinct ids running together,
\* each one that has finished its commands has succeeded, the two use
\* distinct temporary directories, and the ref of each loads to the record
\* the call returns
C11_ConcurrentCaptureIndependence ==
  \A k \in PairSlots :
    /\ caps[k].pc \in {"settle", "done", "failed"} => caps[k].ok
    /\ caps[k].pc = "settle" =>
         /\ caps[k].id \in DOMAIN refs
         /\ LoadCheckpointFromRef(caps[k].id) = CheckpointData(caps[k])

(***************************************************************************)
(* The hook with turns only: sessions, turn_start events, their captures.  *)
(***************************************************************************)
\* turn_start events that start a capture, in a behaviour of turns only
MaxTurnsAlone == 2

InitTurns == HookLoaded(Budget(0, MaxTurnsAlone, 0, 0))

NextTurns ==
  \/ SessionStart
  \/ TurnStart
  \/ TurnCaptureStep
  \/ TurnCaptureReturn
  \/ HookTick

SpecTurns == InitTurns /\ [][NextTurns]_vars

\* every git command returns, and every continuation runs
FairTurns ==
  SpecTurns /\ WF_vars(TurnCaptureStep) /\ WF_vars(TurnCaptureReturn)

(***************************************************************************)
(* Persistence, failures and notifications (under Spec and SpecTurns).     *)
(***************************************************************************)
\* C12: when a createCheckpoint call of the hook has succeeded, loading its
\* ref yields the record the call returns, equal in all seven fields
C12_PersistenceRoundTrip ==
  \A k \in DOMAIN caps :
    (caps[k].pc = "settle" /\ caps[k].ok) =>
      /\ caps[k].id \in DOMAIN refs
      /\ LoadCheckpointFromRef(caps[k].id) = CheckpointData(caps[k])

\* C13: a capture started by turn_start that has failed has set
\* checkpointingFailed; the flag is never cleared, and while it is set no
\* turn_start starts a capture
C13_CaptureFailureDisablesCapture ==
  /\ [](\A k \in DOMAIN caps :
          (Pending(k) /\ caps[k].pc = "failed") => checkpointingFailed)
  /\ [][checkpointingFailed =>
          /\ checkpointingFailed'
          /\ pendingCheckpoints' = pendingCheckpoints
          /\ DOMAIN caps' = DOMAIN caps]_vars

\* the flag is set while the host still has a turn to start, in a session
\* whose id is known
C13_Witness ==
  /\ checkpointingFailed
  /\ gitAvailable
  /\ currentSessionId # 0
  /\ budget.turns > 0

\* the slots of the promises a behaviour of turns only can hold
TurnSlotSet == {TurnSlots[n] : n \in 1..MaxTurnsAlone}

\* C14: turn_start returns with the capture it started still at its first
\* command; the promise of every capture it started is pending until the
\* capture has returned, then settled to the record or to null, never
\* rejected; and every such promise settles
C14_CaptureNeverBlocksTurn ==
  /\ [][Len(pendingCheckpoints') > Len(pendingCheckpoints) =>
          LET k == pendingCheckpoints'[Len(pendingCheckpoints')] IN
          /\ caps'[k].pc = "root"
          /\ caps'[k].promise = "pending"]_vars
  /\ [](\A k \in DOMAIN caps :
          Pending(k) =>
            /\ caps[k].promise \in {"pending", "record", "null"}
            /\ caps[k].promise = "record" <=> caps[k].pc = "done"
            /\ caps[k].promise = "null" <=> caps[k].pc = "failed")
  /\ \A k \in TurnSlotSet :
       (k \in DOMAIN caps) ~>
         (k \in DOMAIN caps /\ caps[k].promise \in {"record", "null"})

\* a capture started by turn_start failed and its promise resolved to null,
\* while a later one is still running
C14_Witness ==
  \E k, j \in DOMAIN caps :
    /\ Pending(k) /\ Pending(j)
    /\ caps[k].promise = "null"
    /\ caps[j].promise = "pending"

\* the before-restore capture or the restore of the branch handler has
\* failed; the handler's next step is its catch
BranchFailure ==
  IF br.pc = "before" /\ caps["before"].pc = "settle" /\ ~caps["before"].ok
  THEN caps["before"].failedAt
  ELSE IF br.pc = "restoring" /\ rst.pc = "failed" THEN rst.failedAt
  ELSE ""

\* C15: when the before-restore capture or a step of restoreCheckpoint (the
\* guard included) has failed in the branch handler, the handler's next step
\* returns to the host with a result, having emitted one notification in
\* all: of level error, carrying the message of the failure
C15_RestoreErrorsSurfaced ==
  [][(BranchFailure # "" /\ br' # br) =>
       /\ br'.pc = "idle"
       /\ br'.result \in {"skipConversationRestore", "undefined"}
       /\ Len(notified') = 1
       /\ notified'[1].level = "error"
       /\ notified'[1].error = BranchFailure]_vars

\* the handler returned after the guard refused a record saved with no
\* commits
C15_Witness ==
  /\ br.pc = "idle"
  /\ br.choice \in {"Restore all", "Code only", "Restore oldest"}
  /\ Len(notified) = 1
  /\ notified[1].level = "error"
  /\ notified[1].error = "guard"

(***************************************************************************)
(* Pruning is best-effort (under SpecPrune).                               *)
(***************************************************************************)
\* C16: a pruneCheckpoints call always comes to its end, whatever command of
\* it failed, and then it has attempted every deletion it scheduled; and no
\* step of a prune changes a capture, a restore, the repository's HEAD, index
\* or working tree, or what the hook's handlers hold
C16_PruningBestEffort ==
  /\ [](\A k \in DOMAIN prunes :
          /\ prunes[k].pc \in {"list", "del", "done"}
          /\ prunes[k].pc = "done" => prunes[k].toDelete = <<>>)
  /\ [][(\E k \in DOMAIN prunes : prunes'[k] # prunes[k]) =>
          UNCHANGED <<head, index, worktree, caps, rst, completedCheckpoints,
                      checkpointingFailed, br, notified>>]_vars

\* a prune whose first deletion failed went on to delete the next ref
C16_Witness ==
  \E k \in DOMAIN prunes :
    /\ prunes[k].pc = "done"
    /\ Len(prunes[k].scheduled) >= 2
    /\ prunes[k].scheduled[1] \in DOMAIN refs
    /\ prunes[k].scheduled[2] \notin DOMAIN refs

(***************************************************************************)
(* The branch handler's choices (under Spec).                              *)
(***************************************************************************)
\* C17: when the prompt is answered with "Conversation only" or "Cancel", or
\* dismissed, the handler returns in that step: it starts no capture and no
\* restore, and HEAD, index, working tree and refs are as they were
C17_NonRestoringChoicesChangeNothing ==
  [][(/\ br.pc = "prompt"
      /\ br'.pc # "prompt"
      /\ br'.choice \in {"", "Cancel", "Conversation only"})
     => /\ br'.pc = "idle"
        /\ UNCHANGED <<head, index, worktree, refs, caps, rst, tmpDirs>>]_vars

\* "Conversation only" was chosen while the files differed from the selected
\* checkpoint
C17_Witness ==
  /\ br.pc = "idle"
  /\ br.choice = "Conversation only"
  /\ br.checkpoint # NoRecord
  /\ AddAll(worktree) # br.checkpoint.worktreeTreeSha
  /\ rst.pc = "idle"

\* C18: the prompt offers "Restore oldest" exactly when more than one record
\* is known; the record that choice restores is a known record whose
\* timestamp is the least of all known records, whatever the selection was
C18_OldestStateOption ==
  /\ br.pc = "prompt" =>
       /\ ("Restore oldest" \in Options(br.hasOlder)) <=> (Len(br.known) > 1)
       /\ \E n \in 1..Len(br.known) : br.known[n] = br.oldest
       /\ \A n \in 1..Len(br.known) :
            br.oldest.timestamp <= br.known[n].timestamp
  /\ (br.pc = "restoring" /\ br.choice = "Restore oldest") =>
       /\ rst.rec = br.oldest
       /\ \A n \in 1..Len(completedCheckpoints) :
            rst.rec.timestamp <= completedCheckpoints[n].timestamp

\* "Restore oldest" restores a record older than the selected one
C18_Witness ==
  /\ br.pc = "restoring"
  /\ br.choice = "Restore oldest"
  /\ rst.rec # br.checkpoint
  /\ rst.rec.timestamp < br.checkpoint.timestamp

\* C19: the branch handler waits for every capture turn_start had started
\* when the handler began; when it selects, each of them has returned, and
\* the record of each that succeeded is in the known set
C19_SelectionWaitsForCaptures ==
  /\ [][(br.pc = "idle" /\ br'.pc = "await") =>
          br'.waitFor = {k \in DOMAIN caps : Pending(k)}]_vars
  /\ [][(br.pc = "await" /\ br'.pc # "await") =>
          \A k \in br.waitFor :
            /\ caps[k].pc \in {"done", "failed"}
            /\ caps[k].pc = "done" => HasId(completedCheckpoints', caps[k].id)
            /\ caps[k].pc = "done" => HasId(br'.known, caps[k].id)]_vars

\* the handler selected the record of a capture it had waited for
C19_Witness ==
  /\ br.pc = "prompt"
  /\ \E k \in br.waitFor :
       /\ caps[k].pc = "done"
       /\ br.checkpoint.id = caps[k].id

\* C20: while restoreCheckpoint is past its step 1 and before the end of its
\* step 4, no createCheckpoint call is in flight
C20_RestoreSerializedAgainstCapture ==
  rst.pc \in {"readwt", "checkout", "readidx"} =>
    \A k \in DOMAIN caps : caps[k].pc \in {"done", "failed"}

(***************************************************************************)
(* What a capture leaves behind (under Spec).                              *)
(***************************************************************************)
\* C21: the step that writes the ref of a capture is the last command of that
\* capture and makes it succeed; a capture that has failed, at whatever
\* step, has no ref of its id and no record of its id in the known set; and
\* every record of the known set has its ref
C21_RefCreationIsCommitPoint ==
  /\ [][\A k \in DOMAIN caps :
          (caps[k].id \notin DOMAIN refs /\ caps[k].id \in DOMAIN refs') =>
            /\ caps[k].pc = "ref"
            /\ caps'[k].pc = "settle"
            /\ caps'[k].ok]_vars
  /\ [](\A k \in DOMAIN caps :
          (caps[k].pc \in {"settle", "failed"} /\ ~caps[k].ok) =>
            /\ caps[k].id \notin DOMAIN refs
            /\ ~HasId(completedCheckpoints, caps[k].id))
  /\ [](\A n \in 1..Len(completedCheckpoints) :
          completedCheckpoints[n].id \in DOMAIN refs)

\* a capture whose git update-ref failed is about to throw, and another
\* capture's record is in the known set
C21_Witness ==
  /\ \E k \in DOMAIN caps :
       /\ caps[k].pc = "settle"
       /\ caps[k].failedAt = "ref"
       /\ k \in tmpDirs
  /\ \E j \in DOMAIN caps :
       /\ caps[j].pc = "done"
       /\ HasId(completedCheckpoints, caps[j].id)

(***************************************************************************)
(* The steps of restoreCheckpoint (under SpecGit, where nothing else       *)
(* touches the repository while the restore runs).                         *)
(***************************************************************************)
\* the repository after steps 1..n of restoring rec into repository pre
AfterSteps(pre, rec, n) ==
  LET s1 == [head |-> rec.headSha, index |-> TreeOf(rec.headSha),
             worktree |-> ResetHardWorktree(pre.index, pre.worktree,
                                            TreeOf(rec.headSha))]
      s2 == [s1 EXCEPT !.index = rec.worktreeTreeSha]
      s3 == [s2 EXCEPT !.worktree = CheckoutIndex(s2.index, s2.worktree)]
      s4 == [s3 EXCEPT !.index = rec.indexTreeSha]
  IN IF n = 0 THEN pre ELSE IF n = 1 THEN s1 ELSE IF n = 2 THEN s2
     ELSE IF n = 3 THEN s3 ELSE s4

\* the number of the step a position or a failure names; 0 before step 1
StepNo(at) ==
  IF at = "reset" THEN 1 ELSE IF at = "readwt" THEN 2
  ELSE IF at = "checkout" THEN 3 ELSE IF at = "readidx" THEN 4 ELSE 0

\* the steps that have been applied when the restore is at r
StepsApplied(r) ==
  IF r.failedAt # "" THEN (IF StepNo(r.failedAt) = 0 THEN 0
                           ELSE StepNo(r.failedAt) - 1)
  ELSE IF r.pc = "done" THEN 4
  ELSE IF StepNo(r.pc) = 0 THEN 0 ELSE StepNo(r.pc) - 1

\* C22: the steps of a restore run in the order reset, read-tree of the
\* worktree tree, checkout-index, read-tree of the index tree; a failing
\* step ends the call with that step's error, no later step runs, and the
\* repository is left as the steps before the failing one made it
C22_RestoreAbortsAtFirstFailure ==
  /\ [](Restoring => RepoIs(AfterSteps(rst.pre, rst.rec, StepsApplied(rst))))
  /\ [](Restoring => (rst.failedAt # "" <=> rst.pc = "failed"))
  /\ [][(Restoring /\ rst' # rst) =>
          /\ rst.pc # "failed"
          /\ \/ /\ rst'.pc = "failed"
                /\ rst'.failedAt = (IF rst.pc = "root" /\ rst.rec.headSha = ZEROS
                                       /\ rst'.failedAt # "root"
                                    THEN "guard" ELSE rst.pc)
             \/ /\ rst'.failedAt = ""
                /\ <<rst.pc, rst'.pc>> \in
                     {<<"root", "reset">>, <<"reset", "readwt">>,
                      <<"readwt", "checkout">>, <<"checkout", "readidx">>,
                      <<"readidx", "done">>}]_vars

\* the restore failed at step 3 and left the repository as steps 1 and 2 made
\* it, which is neither the state before the restore nor the state a full
\* restore gives
C22_Witness ==
  /\ rst.pc = "failed"
  /\ rst.failedAt = "checkout"
  /\ ~RepoIs(rst.pre)
  /\ ~RepoIs(AfterSteps(rst.pre, rst.rec, 4))

(***************************************************************************)
(* What createCheckpoint touches (under SpecGit).                          *)
(***************************************************************************)
\* C23: no step of createCheckpoint changes HEAD, the index or a file of the
\* working tree; from the call to its return, succeeded or failed, the
\* repository is as the call found it, and of the refs only the ref of the
\* call's id is new, which exists exactly when the call has succeeded
C23_CaptureLeavesRepositoryAlone ==
  /\ [][caps' # caps => UNCHANGED <<head, index, worktree>>]_vars
  /\ []((eng.phase \in {"capture", "mid", "end"} /\ ~eng.dirty) =>
          RepoIs(eng.pre))
  /\ [](eng.phase = "capture" =>
          /\ DOMAIN refs \subseteq {EngId}
          /\ EngId \in DOMAIN refs <=> caps["eng"].ok)

\* a capture has returned its record in a repository whose index differs
\* from what git add -A . makes of the working tree
C23_Witness ==
  /\ eng.phase = "mid"
  /\ ~eng.dirty
  /\ EngId \in DOMAIN refs
  /\ index # AddAll(worktree)

(***************************************************************************)
(* The temporary directory of a capture (under SpecGit).                   *)
(***************************************************************************)
\* C24 as stated: once a createCheckpoint call has returned or thrown, its
\* temporary directory does not exist
C24_TempDirRemovedOnCompletion ==
  \A k \in DOMAIN caps :
    caps[k].pc \in {"done", "failed"} => k \notin tmpDirs

\* C24: a temporary directory exists only for a call that is past mkdtemp;
\* once the call has returned or thrown, at whatever step, its directory
\* exists only if the rm of the finally block itself failed
C24_TempDirRemovalAttempted ==
  \A k \in DOMAIN caps :
    /\ k \in tmpDirs =>
         caps[k].pc \in {"add", "ref", "settle", "done", "failed"}
    /\ caps[k].pc \in {"done", "failed"} =>
         (k \in tmpDirs <=> caps[k].rm = "failed")

\* a call that failed after it had made its directory has thrown, and the
\* directory is gone
C24_Witness ==
  \E k \in DOMAIN caps :
    /\ caps[k].pc = "failed"
    /\ caps[k].rm = "removed"
    /\ k \notin tmpDirs

(***************************************************************************)
(* The known set and the refs (under Spec).                                *)
(***************************************************************************)
\* the ids of the refs whose metadata names session sid
RefsOfSession(sid) == {i \in DOMAIN refs : refs[i].sessionId = sid}

\* known is the beginning of later, in the same order
IsPrefix(known, later) ==
  /\ Len(known) <= Len(later)
  /\ \A n \in 1..Len(known) : later[n] = known[n]

\* C25: when the branch handler has listed the refs for a session other than
\* the current one, every record known before is still known, in its place;
\* every ref of that session has its record in the known set; every record
\* that was added is the record of a ref of that session; and the records the
\* selection ranges over are the known set
C25_CrossSessionMerge ==
  [][(/\ br.pc = "await" /\ br'.pc # "await"
      /\ br'.entriesSessionId \notin {0, currentSessionId}
      /\ budget'.faults = budget.faults)
     => /\ IsPrefix(completedCheckpoints, completedCheckpoints')
        /\ \A i \in RefsOfSession(br'.entriesSessionId) :
             \E n \in 1..Len(completedCheckpoints') :
               completedCheckpoints'[n] = LoadCheckpointFromRef(i)
        /\ \A n \in (Len(completedCheckpoints) + 1)..Len(completedCheckpoints') :
             /\ completedCheckpoints'[n].id \in RefsOfSession(br'.entriesSessionId)
             /\ completedCheckpoints'[n].sessionId = br'.entriesSessionId
        /\ br'.known = completedCheckpoints'
        /\ br'.pc = "prompt" =>
             \E n \in 1..Len(completedCheckpoints') :
               completedCheckpoints'[n] = br'.checkpoint]_vars

\* the handler merged the records of another session into a known set that
\* held records of the current one, and selected one of the merged records
C25_Witness ==
  /\ br.pc = "prompt"
  /\ br.entriesSessionId \notin {0, currentSessionId}
  /\ \E n \in 1..Len(br.known) : br.known[n].sessionId = currentSessionId
  /\ br.checkpoint.sessionId = br.entriesSessionId

(***************************************************************************)
(* Sessions: the host sends session_start when the extension is loaded and *)
(* again when it starts another session in the same process; turns and     *)
(* their captures in between.                                              *)
(***************************************************************************)
\* session_start events after the first, per behaviour
MaxRestarts == 1

\* refs an earlier run left, one of them with a commit message whose
\* "sessionId " line matches no session id
PriorRefsUnparsable(r) ==
  [i \in {TurnId(2, 0, 0), TurnId(1, 1, 0), BeforeId(0, 0)} |-> PriorCommit(r, i)]

InitSessions ==
  /\ head = HookRepo.head /\ index = HookRepo.index
  /\ worktree = HookRepo.worktree
  /\ refs \in PriorRefs(HookRepo) \cup {PriorRefsUnparsable(HookRepo)}
  /\ tmpDirs = {}
  /\ clock = 1
  /\ caps = NoCaps
  /\ rst = IdleRestore
  /\ budget = [Budget(0, MaxTurns, 0, 0) EXCEPT !.restarts = MaxRestarts]
  /\ eng = [phase |-> "off", rec |-> None, pre |-> None, dirty |-> FALSE]
  /\ refWrites = 0
  /\ HookInit
  /\ LspHookLoaded

\* session_start in a process that has had one: the repository is a git
\* repository as before, and the host names the session file
SessionRestart ==
  /\ gitAvailable
  /\ budget.restarts > 0
  /\ \E file \in Sessions :
       /\ currentSessionFile' = file
       /\ \E sid \in GetSessionIdFromFile(file), ok \in Outcomes :
            /\ budget' = [Spent(ok \/ sid = 0) EXCEPT !.restarts = @ - 1]
            /\ currentSessionId' = sid
            /\ completedCheckpoints' =
                 IF sid # 0
                 THEN LoadCheckpointsForSession(completedCheckpoints, sid,
                                                TRUE, ok)
                 ELSE completedCheckpoints
  /\ UNCHANGED <<pendingCheckpoints, gitAvailable, checkpointingFailed>>
  /\ UNCHANGED hookRest
  /\ UNCHANGED <<head, index, worktree, refs, tmpDirs, clock, caps, rst, eng,
                 refWrites, mgr>>

NextSessions ==
  \/ SessionStart
  \/ SessionRestart
  \/ TurnStart
  \/ TurnCaptureStep
  \/ TurnCaptureReturn
  \/ HookTick

SpecSessions == InitSessions /\ [][NextSessions]_vars

\* the step is a session_start handler that was given a session file, read a
\* session id from it and listed the refs
SessionStarted ==
  /\ \/ ~gitAvailable /\ gitAvailable'
     \/ budget'.restarts < budget.restarts
  /\ currentSessionFile' # 0
  /\ currentSessionId' # 0
  /\ budget'.faults = budget.faults

C27_CacheAgreesWithRefs ==
  /\ \A n \in 1..Len(completedCheckpoints) :
       completedCheckpoints[n].id \in DOMAIN refs
  /\ br.pc = "prompt" => br.checkpoint.id \in DOMAIN refs
  /\ Restoring => rst.rec.id \in DOMAIN refs

(***************************************************************************)
(* Branch after branch in one process: turns, and branch events one after  *)
(* the other; no command fails for a reason outside the program.           *)
(***************************************************************************)
\* branch events per behaviour
MaxBranchesInRow == 2

InitBranches ==
  HookLoaded(NoFaults(Budget(0, MaxTurns, MaxBranchesInRow, 0)))

NextBranches ==
  \/ SessionStart
  \/ TurnStart
  \/ TurnCaptureStep
  \/ TurnCaptureReturn
  \/ BranchStart
  \/ BranchSelect
  \/ BranchChoose
  \/ BranchBeforeStep
  \/ BranchBeforeReturn
  \/ BranchRestoreStep
  \/ BranchRestoreReturn
  \/ SessionSwitch
  \/ HookTick

SpecBranches == InitBranches /\ [][NextBranches]_vars

\* C28 (as claimed): the record the branch handler selects for the target is
\* one a turn_start handler captured, never a before-restore snapshot
C28_SelectionPicksTurnStartStates ==
  br.pc = "prompt" => br.checkpoint.id.kind = "turn"

\* C29 (as claimed): no two records of the known set have the same id
C29_NoDuplicateRecords ==
  \A m, n \in 1..Len(completedCheckpoints) :
    m # n => completedCheckpoints[m].id # completedCheckpoints[n].id

(***************************************************************************)
(* What the branch handler returns (under Spec).                           *)
(***************************************************************************)
\* C30: when the branch handler returns after its prompt, it returns
\* {skipConversationRestore: true} exactly when the prompt was dismissed or
\* answered with "Cancel", "Code only" or "Restore oldest", and undefined for
\* "Restore all" and "Conversation only", whether the before-restore capture
\* and the restore succeeded or failed
C30_ConversationDecisionIgnoresRestoreOutcome ==
  [][(br.pc \in {"prompt", "before", "restoring"} /\ br'.pc = "idle") =>
       /\ br'.choice \in Options(br.hasOlder) \cup {""}
       /\ br'.result = "skipConversationRestore" <=>
            br'.choice \in {"", "Cancel", "Code only", "Restore oldest"}
       /\ br'.result = "undefined" <=>
            br'.choice \in {"Restore all", "Conversation only"}]_vars

\* "Restore all" whose restore failed has returned undefined
C30_Witness ==
  /\ br.pc = "idle"
  /\ br.choice = "Restore all"
  /\ br.before # NoRecord
  /\ Len(notified) = 1 /\ notified[1].level = "error"
  /\ br.result = "undefined"


(***************************************************************************)
(* The LSP hook (lsp/lsp-hook.ts): LSPManager.  One step of the model is   *)
(* one turn of the event loop: the callback the host, a timer or a server  *)
(* process starts, and the promise reactions it leaves behind, run in the  *)
(* order of their registration before the next callback starts.            *)
(***************************************************************************)
\* getDiagnostics calls the host makes per behaviour
MaxCalls == 3
\* source files of one language beyond the number a client keeps open
MaxExtraFiles == 1
\* the client's limit of open files (50 in the program)
MAX_OPEN == 2

\* the files tool results name: TypeScript files, a Rust file that has been
\* deleted (number 0) and a file no server is configured for
LspFiles ==
  {[ext |-> ".ts", n |-> i] : i \in 1..(MAX_OPEN + MaxExtraFiles)}
    \cup {[ext |-> ".rs", n |-> 0], [ext |-> ".md", n |-> 1]}
\* fs.readFileSync(abs, "utf-8") returns
Readable(f) == f.n > 0

\* EXT_CFG.get(path.extname(file)): the id of the server, "" for none
EXT_CFG(ext) ==
  IF ext = ".ts" THEN "typescript" ELSE IF ext = ".rs" THEN "rust" ELSE ""
\* findRoot(abs, cwd, markers): every file lies in the one project
FindRoot(f) == "/repo"
\* `${cfg.id}:${root}`
KeyOf(f) == EXT_CFG(f.ext) \o ":" \o FindRoot(f)

\* the Client create() builds, with the state of its process and promise
\* st: "initializing" while create() awaits the initialize request
\* alive: the process has not exited; files: the Map in insertion order
\* wasBroken: the key was in broken when the process was spawned (history)
NewClient(key, wasBroken) ==
  [key |-> key, st |-> "initializing", alive |-> TRUE, files |-> <<>>,
   diags |-> {}, wasBroken |-> wasBroken]

\* a getDiagnostics call between two awaits
\* pc: "client" at await this.pending.get(key), "send" at await
\* sendNotification, "wait" at await wait
NewCall(f, c) ==
  [file |-> f, pc |-> "client", c |-> c, opened |-> FALSE, woken |-> FALSE]

Made(m) == m.returned + Len(m.calls)

BrokenHas(m, key) == key \in m.broken
ClientsHas(m, key) == key \in DOMAIN m.clients
PendingHasMutantNever(m, key) == FALSE
PendingHas(m, key) == key \in DOMAIN m.pending

MapSet(map, k, v) == [x \in DOMAIN map \cup {k} |-> IF x = k THEN v ELSE map[x]]
MapDelete(map, k) == [x \in DOMAIN map \ {k} |-> map[x]]

FileIndex(files, f) ==
  IF \E i \in 1..Len(files) : files[i].f = f
  THEN CHOOSE i \in 1..Len(files) : files[i].f = f
  ELSE 0
OpenFiles(cl) == {cl.files[i].f : i \in 1..Len(cl.files)}

\* Array.from(c.files.entries()).sort((a, b) => a[1].ts - b[1].ts): the sort
\* is stable, so entries of one ts keep the Map's insertion order
SortsBefore(files, i, j) ==
  files[i].ts < files[j].ts \/ (files[i].ts = files[j].ts /\ i < j)
SortedPosition(files, i) ==
  Cardinality({j \in 1..Len(files) : SortsBefore(files, j, i)}) + 1
\* sorted.slice(0, sorted.length - MAX_OPEN)
Evicted(files) ==
  {files[i].f : i \in {j \in 1..Len(files) :
                         SortedPosition(files, j) <= Len(files) - MAX_OPEN}}

\* prune(c)
Prune(cl) ==
  IF Len(cl.files) <= MAX_OPEN THEN cl
  ELSE [cl EXCEPT
          !.files = SelectSeq(cl.files, LAMBDA e : e.f \notin Evicted(cl.files)),
          !.diags = @ \ Evicted(cl.files)]

\* a call that has returned leaves the manager
Return(call) == [call EXCEPT !.pc = "done"]
Collect(m) ==
  [m EXCEPT !.calls = SelectSeq(@, LAMBDA call : call.pc # "done"),
            !.returned = @ + Cardinality({i \in 1..Len(m.calls) :
                                            m.calls[i].pc = "done"})]

\* getDiagnostics from the return of getClient to await sendNotification:
\* call i holds client c
Opening(m, i) ==
  LET f == m.calls[i].file
      cl == m.creations[m.calls[i].c]
      at == FileIndex(cl.files, f)
  IN  IF ~Readable(f) THEN [m EXCEPT !.calls[i] = Return(@)]
      ELSE [m EXCEPT
             !.creations[m.calls[i].c] =
                [cl EXCEPT
                   !.diags = @ \ {f},
                   !.files =
                     IF at > 0
                     THEN [@ EXCEPT ![at] = [f |-> f, ver |-> @.ver + 1,
                                             ts |-> Now]]
                     ELSE Append(@, [f |-> f, ver |-> 0, ts |-> Now])],
             !.calls[i] = [@ EXCEPT !.pc = "send", !.opened = (at = 0)]]

\* the reactions of the promise of creation c, in the order of their
\* registration: the finally of l.329 first, then the awaits of l.332
Awaiting(m, c) ==
  {i \in 1..Len(m.calls) : m.calls[i].pc = "client" /\ m.calls[i].c = c}

\* l.333-334 and what follows in getDiagnostics, for the calls from i on
RECURSIVE Resumed(_, _, _)
Resumed(m, c, i) ==
  IF i > Len(m.calls) THEN m
  ELSE IF i \notin Awaiting(m, c) THEN Resumed(m, c, i + 1)
  ELSE IF m.creations[c].st = "ready"
       THEN Resumed(Opening([m EXCEPT !.clients =
                                         MapSet(@, m.creations[c].key, c)], i),
                    c, i + 1)
       ELSE Resumed([m EXCEPT !.calls[i] = Return(@)], c, i + 1)

\* the promise of creation c settles: create() returns the client or, from
\* its catch, undefined
CreateSettled(m, c, ok) ==
  LET key == m.creations[c].key
      made == [m EXCEPT !.creations[c].st = IF ok THEN "ready" ELSE "failed",
                        !.broken = IF ok THEN @ ELSE @ \cup {key}]
  IN  Resumed([made EXCEPT !.pending = MapDelete(@, key)], c, 1)

\* which(bin) finds the server's binary
CmdOutcomes == Outcomes

\* tool_result for a written or edited file: getDiagnostics(file) up to its
\* first await that does not resolve in the same turn
GetDiagnostics(m, f, found) ==
  LET key == KeyOf(f)
      i == Len(m.calls) + 1
      c == Len(m.creations) + 1
  IN  IF EXT_CFG(f.ext) = "" \/ BrokenHas(m, key)
      THEN [m EXCEPT !.returned = @ + 1]
      ELSE IF ClientsHas(m, key)
      THEN Collect(Opening([m EXCEPT !.calls =
                                        Append(@, NewCall(f, m.clients[key]))],
                            i))
      ELSE IF PendingHas(m, key)
      THEN [m EXCEPT !.calls = Append(@, NewCall(f, m.pending[key]))]
      ELSE IF ~found
      THEN [m EXCEPT !.broken = @ \cup {key}, !.returned = @ + 1]
      ELSE [m EXCEPT
              !.creations = Append(@, NewClient(key, key \in m.broken)),
              !.pending = MapSet(@, key, c),
              !.calls = Append(@, NewCall(f, c))]

\* the checkpoint hook and its repository, which the LSP hook does not touch
lspRest ==
  <<head, index, worktree, refs, tmpDirs, caps, rst, eng, refWrites,
    completedCheckpoints, pendingCheckpoints, gitAvailable,
    checkpointingFailed, currentSessionId, currentSessionFile, prunes, br,
    notified>>

\* does this call run cfg.cmd(root)
RunsCmd(m, f) ==
  /\ EXT_CFG(f.ext) # ""
  /\ ~BrokenHas(m, KeyOf(f)) /\ ~ClientsHas(m, KeyOf(f))
  /\ ~PendingHas(m, KeyOf(f))

LspCall ==
  /\ Made(mgr) < MaxCalls
  /\ \E f \in LspFiles :
       \E found \in IF RunsCmd(mgr, f) THEN CmdOutcomes ELSE {TRUE} :
         /\ mgr' = GetDiagnostics(mgr, f, found)
         /\ budget' = Spent(found)
  /\ UNCHANGED clock
  /\ UNCHANGED lspRest

\* the initialize request of creation c is answered, or it throws: the
\* INIT_TIMEOUT timer fires, or the connection is closed
InitializeOutcomes(cl) == IF cl.alive THEN Outcomes ELSE {FALSE}

LspInitialized ==
  /\ \E c \in 1..Len(mgr.creations) :
       /\ mgr.creations[c].st = "initializing"
       /\ \E ok \in InitializeOutcomes(mgr.creations[c]) :
            /\ mgr' = Collect(CreateSettled(mgr, c, ok))
            /\ budget' = IF mgr.creations[c].alive THEN Spent(ok) ELSE budget
  /\ UNCHANGED clock
  /\ UNCHANGED lspRest

\* conn.sendNotification of didOpen or didChange resolves, or it throws: the
\* connection is closed or the write to the server's stdin fails
SendOutcomes(cl) == IF cl.alive THEN Outcomes ELSE {FALSE}

\* l.386-402 from the await of sendNotification on
Sent(m, i, ok) ==
  LET call == m.calls[i]
      pruned == IF call.opened
                THEN [m EXCEPT !.creations[call.c] = Prune(@)]
                ELSE m
  IN  IF ~ok THEN [m EXCEPT !.calls[i] = Return(@)]
      ELSE IF call.woken THEN [pruned EXCEPT !.calls[i] = Return(@)]
      ELSE [pruned EXCEPT !.calls[i].pc = "wait"]

LspSent ==
  /\ \E i \in 1..Len(mgr.calls) :
       /\ mgr.calls[i].pc = "send"
       /\ \E ok \in SendOutcomes(mgr.creations[mgr.calls[i].c]) :
            /\ mgr' = Collect(Sent(mgr, i, ok))
            /\ budget' = IF mgr.creations[mgr.calls[i].c].alive
                         THEN Spent(ok) ELSE budget
  /\ UNCHANGED clock
  /\ UNCHANGED lspRest

\* the waiters of file f at client c run: a call at await wait returns
Woken(m, c, f) ==
  [m EXCEPT !.calls =
     [i \in 1..Len(m.calls) |->
        IF m.calls[i].c = c /\ m.calls[i].file = f
        THEN IF m.calls[i].pc = "wait" THEN Return(m.calls[i])
             ELSE IF m.calls[i].pc = "send"
                  THEN [m.calls[i] EXCEPT !.woken = TRUE]
                  ELSE m.calls[i]
        ELSE m.calls[i]]]

\* the files calls wait for at client c
Waited(m, c) ==
  {m.calls[i].file : i \in {j \in 1..Len(m.calls) :
                              m.calls[j].c = c /\ m.calls[j].pc # "client"}}

\* textDocument/publishDiagnostics from the server of client c, l.255-263
LspPublish ==
  /\ \E c \in 1..Len(mgr.creations) : \E f \in LspFiles :
       /\ mgr.creations[c].alive
       /\ f \in OpenFiles(mgr.creations[c]) \cup Waited(mgr, c)
       /\ mgr' = Collect(Woken([mgr EXCEPT !.creations[c].diags = @ \cup {f}],
                                c, f))
  /\ UNCHANGED <<clock, budget>>
  /\ UNCHANGED lspRest

\* the timer of l.372 fires for call i
LspTimeout ==
  /\ \E i \in 1..Len(mgr.calls) :
       /\ mgr.calls[i].pc \in {"send", "wait"}
       /\ ~mgr.calls[i].woken
       /\ mgr' = Collect([mgr EXCEPT !.calls[i] =
                             IF @.pc = "wait" THEN Return(@)
                             ELSE [@ EXCEPT !.woken = TRUE]])
  /\ UNCHANGED <<clock, budget>>
  /\ UNCHANGED lspRest

\* proc.on("exit"), l.273
LspExit ==
  /\ budget.faults > 0
  /\ \E c \in 1..Len(mgr.creations) :
       /\ mgr.creations[c].alive
       /\ mgr' = [mgr EXCEPT !.creations[c].alive = FALSE,
                             !.clients = MapDelete(@, mgr.creations[c].key)]
  /\ budget' = Spent(FALSE)
  /\ UNCHANGED clock
  /\ UNCHANGED lspRest

\* proc.on("error"), l.274-277
LspError ==
  /\ budget.faults > 0
  /\ \E c \in 1..Len(mgr.creations) :
       /\ mgr.creations[c].alive
       /\ mgr' = [mgr EXCEPT !.clients = MapDelete(@, mgr.creations[c].key),
                             !.broken = @ \cup {mgr.creations[c].key}]
  /\ budget' = Spent(FALSE)
  /\ UNCHANGED clock
  /\ UNCHANGED lspRest

LspTick ==
  /\ Tick
  /\ UNCHANGED <<mgr, budget>>
  /\ UNCHANGED lspRest

InitLsp ==
  /\ head = HookRepo.head /\ index = HookRepo.index
  /\ worktree = HookRepo.worktree
  /\ refs = [i \in {} |-> None]
  /\ tmpDirs = {}
  /\ clock = 0
  /\ caps = NoCaps
  /\ rst = IdleRestore
  /\ budget = Budget(0, 0, 0, 0)
  /\ eng = [phase |-> "off", rec |-> None, pre |-> None, dirty |-> FALSE]
  /\ refWrites = 0
  /\ HookInit
  /\ LspHookLoaded

NextLsp ==
  \/ LspCall
  \/ LspInitialized
  \/ LspSent
  \/ LspPublish
  \/ LspTimeout
  \/ LspExit
  \/ LspError
  \/ LspTick

SpecLsp == InitLsp /\ [][NextLsp]_vars

(***************************************************************************)
(* Claims about the LSP manager (under SpecLsp).                           *)
(***************************************************************************)
\* the creations of a server for key k whose promise has not settled
InFlight(k) ==
  {c \in 1..Len(mgr.creations) :
     mgr.creations[c].key = k /\ mgr.creations[c].st = "initializing"}
LspKeys == {KeyOf(f) : f \in {g \in LspFiles : EXT_CFG(g.ext) # ""}}

\* C31: for each (server id, project root) key at most one creation of a
\* server process is in flight at any time, and it is the one recorded in
\* pending; every getClient call that waits for a client of the key waits for
\* that creation; and no process was spawned for a key that was recorded as
\* broken
C31_SingleFlightCreation ==
  /\ \A k \in LspKeys :
       /\ Cardinality(InFlight(k)) <= 1
       /\ k \in DOMAIN mgr.pending <=> InFlight(k) # {}
       /\ k \in DOMAIN mgr.pending => mgr.pending[k] \in InFlight(k)
  /\ \A i \in 1..Len(mgr.calls) :
       mgr.calls[i].pc = "client" =>
         /\ KeyOf(mgr.calls[i].file) \in DOMAIN mgr.pending
         /\ mgr.calls[i].c = mgr.pending[KeyOf(mgr.calls[i].file)]
  /\ \A c \in 1..Len(mgr.creations) : ~mgr.creations[c].wasBroken

\* two getClient calls wait for the one creation of their key, and a key is
\* recorded as broken
C31_Witness ==
  \E i, j \in 1..Len(mgr.calls) :
    /\ i # j
    /\ mgr.calls[i].pc = "client" /\ mgr.calls[j].pc = "client"
    /\ mgr.calls[i].c = mgr.calls[j].c
    /\ mgr.broken # {}

\* a getDiagnostics call returns in this step
CallReturns == mgr'.returned > mgr.returned
\* every client holds at most MAX_OPEN open files once the step is done
OpenFilesBounded ==
  \A c \in 1..Len(mgr'.creations) : Len(mgr'.creations[c].files) <= MAX_OPEN
\* the files client c closes in this step
EvictedNow(c) == OpenFiles(mgr.creations[c]) \ OpenFiles(mgr'.creations[c])
LastUse(cl, f) == cl.files[FileIndex(cl.files, f)].ts
\* no file the client keeps was last used before a file it closes
EvictsOldest ==
  \A c \in 1..Len(mgr.creations) :
    \A e \in EvictedNow(c) :
      \A k \in OpenFiles(mgr.creations[c]) \ EvictedNow(c) :
        LastUse(mgr.creations[c], e) <= LastUse(mgr.creations[c], k)
\* a file the client closes has no cached diagnostics afterwards
EvictedLoseDiagnostics ==
  \A c \in 1..Len(mgr.creations) :
    EvictedNow(c) \cap mgr'.creations[c].diags = {}

\* C32 (as claimed): after every getDiagnostics call returns, each client
\* holds at most MAX_OPEN open files; the files a client closes are those of
\* the oldest last-use time, and each of them loses its cached diagnostics
C32_OpenFileBound ==
  [][/\ CallReturns => OpenFilesBounded
     /\ EvictsOldest
     /\ EvictedLoseDiagnostics]_vars
=============================================================================
